---- MODULE Spec2Model ----
(***************************************************************************)
(* A model of the spreadsheet annotation engine of the pre-sales frontend  *)
(* (src/src/pages/ResultsPage.tsx, second half: the module imported as     *)
(* ../lib/annotate-uploaded-excel).                                        *)
(*                                                                         *)
(* A JavaScript string is a sequence of one-character strings, so that     *)
(* norm, Number(), String() and the header regular expressions are         *)
(* computed character by character.  A cell value ("unknown" in the        *)
(* source) is a tagged record: t = "s" a string (field s), t = "n" a       *)
(* number (field n), t = "z" no cell at all (only inside a worksheet).     *)
(* Indices are 0-based as in the source; At(s, i) reads s[i].              *)
(***************************************************************************)
EXTENDS Integers, Sequences, FiniteSets, TLC

\* ------------------------------------------------------------------ bounds

MaxLead == 2        \* rows above the header row of the selected sheet
MaxDataRows == 2    \* rows below the header row of the selected sheet
MaxRecords == 2     \* length of the record list of a call
MaxSheets == 2      \* sheets of a workbook
MaxRequests == 2    \* requests of apiFetch in flight at once
MaxEdits == 2       \* local edits of the results table
MaxFetches == 3     \* requests made by ResultsPage
MaxExports == 1     \* exports of the uploaded file

\* ------------------------------------------------------------------ values

Str(x) == [t |-> "s", s |-> x, n |-> 0]
Num(k) == [t |-> "n", s |-> <<>>, n |-> k]
NoCell == [t |-> "z", s |-> <<>>, n |-> 0]

At(seq, i) == seq[i + 1]

Whitespace == {" ", "\t"}

UpperCase == <<"A","B","C","D","E","F","G","H","I","J","K","L","M",
               "N","O","P","Q","R","S","T","U","V","W","X","Y","Z">>
LowerCase == <<"a","b","c","d","e","f","g","h","i","j","k","l","m",
               "n","o","p","q","r","s","t","u","v","w","x","y","z">>
Digits == <<"0","1","2","3","4","5","6","7","8","9">>

UpperCaseSet == {UpperCase[i] : i \in 1..26}
LowerCaseOf == [ch \in UpperCaseSet |-> LowerCase[CHOOSE i \in 1..26 : UpperCase[i] = ch]]

\* String.prototype.toLowerCase, one character.
toLowerChar(ch) == IF ch \in UpperCaseSet THEN LowerCaseOf[ch] ELSE ch

RECURSIVE toLowerCase(_)
toLowerCase(s) ==
  IF s = <<>> THEN <<>> ELSE <<toLowerChar(Head(s))>> \o toLowerCase(Tail(s))

\* s.replace(/\s+/g, " "): every maximal run of whitespace becomes one space.
RECURSIVE replaceWsRuns(_)
replaceWsRuns(s) ==
  IF s = <<>> THEN <<>>
  ELSE IF Head(s) \in Whitespace
       THEN IF Len(s) > 1 /\ s[2] \in Whitespace
            THEN replaceWsRuns(Tail(s))
            ELSE <<" ">> \o replaceWsRuns(Tail(s))
       ELSE <<Head(s)>> \o replaceWsRuns(Tail(s))

RECURSIVE trimStart(_)
trimStart(s) ==
  IF s # <<>> /\ Head(s) \in Whitespace THEN trimStart(Tail(s)) ELSE s

RECURSIVE trimEnd(_)
trimEnd(s) ==
  IF s # <<>> /\ s[Len(s)] \in Whitespace
  THEN trimEnd(SubSeq(s, 1, Len(s) - 1))
  ELSE s

\* String.prototype.trim
trim(s) == trimEnd(trimStart(s))

\* String(n) for an integer n >= 0.
RECURSIVE numToString(_)
numToString(k) ==
  IF k < 10 THEN <<Digits[k + 1]>>
  ELSE numToString(k \div 10) \o <<Digits[(k % 10) + 1]>>

\* String(v ?? ""): a string is itself, a number its decimal digits.
String(v) == IF v.t = "n" THEN numToString(v.n) ELSE v.s

\* norm (ResultsPage.tsx 573-578)
norm(v) == toLowerCase(trim(replaceWsRuns(String(v))))

\* A JavaScript number: a finite integer or NaN.
Finite(k) == [finite |-> TRUE, n |-> k]
NaN == [finite |-> FALSE, n |-> 0]

DigitSet == {Digits[i] : i \in 1..10}
DigitValueOf == [ch \in DigitSet |-> (CHOOSE i \in 1..10 : Digits[i] = ch) - 1]

IsDigit(ch) == ch \in DigitSet
DigitValue(ch) == DigitValueOf[ch]

RECURSIVE parseDigits(_, _)
parseDigits(s, acc) ==
  IF s = <<>> THEN acc
  ELSE parseDigits(Tail(s), 10 * acc + DigitValue(Head(s)))

\* A conversion that reads the empty string as NaN, as parseFloat does.
NumberBlankNaN(v) ==
  IF v.t = "n" THEN Finite(v.n)
  ELSE LET u == trim(v.s)
       IN IF u # <<>> /\ \A i \in 1..Len(u) : IsDigit(u[i])
          THEN Finite(parseDigits(u, 0))
          ELSE NaN

\* Number(v): a number is itself; a string is trimmed, the empty string is 0,
\* a run of decimal digits is its value, anything else is NaN.
Number(v) ==
  IF v.t = "n" THEN Finite(v.n)
  ELSE LET u == trim(v.s)
       IN IF u = <<>> THEN Finite(0)
          ELSE IF \A i \in 1..Len(u) : IsDigit(u[i])
               THEN Finite(parseDigits(u, 0))
               ELSE NaN

\* ------------------------------------------------------------------ regular expressions
\* An anchored pattern ^...$ is a sequence of tokens: a literal character,
\* an optional literal character (x?), or \s*.

Lit(ch) == [k |-> "lit", c |-> ch]
Opt(ch) == [k |-> "opt", c |-> ch]
WsStar == [k |-> "ws*", c |-> " "]

Lits(s) == [i \in 1..Len(s) |-> Lit(s[i])]

\* A test that stops at the end of the pattern: the $ anchor left out.
RECURSIVE reMatchPrefix(_, _)
reMatchPrefix(p, s) ==
  IF p = <<>> THEN TRUE
  ELSE LET tk == Head(p)
       IN CASE tk.k = "lit" ->
                 s # <<>> /\ Head(s) = tk.c /\ reMatchPrefix(Tail(p), Tail(s))
            [] tk.k = "opt" ->
                 \/ s # <<>> /\ Head(s) = tk.c /\ reMatchPrefix(Tail(p), Tail(s))
                 \/ reMatchPrefix(Tail(p), s)
            [] OTHER ->
                 \/ reMatchPrefix(Tail(p), s)
                 \/ s # <<>> /\ Head(s) \in Whitespace /\ reMatchPrefix(p, Tail(s))

\* RegExp.prototype.test for an anchored pattern, with backtracking.
RECURSIVE reMatch(_, _)
reMatch(p, s) ==
  IF p = <<>> THEN s = <<>>
  ELSE LET tk == Head(p)
       IN CASE tk.k = "lit" ->
                 s # <<>> /\ Head(s) = tk.c /\ reMatch(Tail(p), Tail(s))
            [] tk.k = "opt" ->
                 \/ s # <<>> /\ Head(s) = tk.c /\ reMatch(Tail(p), Tail(s))
                 \/ reMatch(Tail(p), s)
            [] OTHER ->
                 \/ reMatch(Tail(p), s)
                 \/ s # <<>> /\ Head(s) \in Whitespace /\ reMatch(p, Tail(s))

\* The candidate lists of lines 677-689.
featureCandidates ==
  << Lits(<<"f","e","a","t","u","r","e">>),
     Lits(<<"f","e","a","t","u","r","e","s">>),
     Lits(<<"f","e","a","t","u","r","e">>) \o <<WsStar>> \o Lits(<<"n","a","m","e">>),
     Lits(<<"t","i","t","l","e">>),
     Lits(<<"n","a","m","e">>) >>

featureIndexCandidates ==
  << Lits(<<"f","e","a","t","u","r","e">>) \o <<WsStar>> \o Lits(<<"i","n","d","e","x">>),
     Lits(<<"i","n","d","e","x">>),
     <<Lit("s"), Lit("r"), Opt("."), WsStar, Lit("n"), Lit("o"), Opt(".")>>,
     <<Lit("s"), Opt("."), WsStar, Lit("n"), Lit("o"), Opt(".")>> >>

\* ------------------------------------------------------------------ header location

\* A row counted as empty only when its cells are "" as they stand.
isRowEmptyRaw(row) == \A i \in 1..Len(row) : row[i] = Str(<<>>)

\* isRowEmpty (580-582)
isRowEmpty(row) == \A i \in 1..Len(row) : norm(row[i]) = <<>>

\* The loop of findHeaderRowIndex from row i (0-based) on.
RECURSIVE findHeaderFrom(_, _)
findHeaderFrom(aoa, i) ==
  IF i >= Len(aoa) THEN 0
  ELSE IF Len(At(aoa, i)) > 0 /\ ~isRowEmpty(At(aoa, i)) THEN i
  ELSE findHeaderFrom(aoa, i + 1)

\* findHeaderRowIndex (584-591): 0-based, 0 when no row qualifies.
findHeaderRowIndex(aoa) == findHeaderFrom(aoa, 0)

\* h.findIndex(cell => re.test(cell)): 0-based, -1 when none.
findIndex(h, re) ==
  LET ok == {i \in 1..Len(h) : reMatch(re, h[i])}
  IN IF ok = {} THEN -1
     ELSE (CHOOSE i \in ok : \A j \in ok : i <= j) - 1

\* The loop returning 0 instead of -1 when no candidate matches.
RECURSIVE pickFromZero(_, _)
pickFromZero(h, candidates) ==
  IF candidates = <<>> THEN 0
  ELSE LET idx == findIndex(h, Head(candidates))
       IN IF idx >= 0 THEN idx ELSE pickFromZero(h, Tail(candidates))

\* The leftmost cell that matches any of the candidates.
pickFromLeftmost(h, candidates) ==
  LET ok == {i \in 1..Len(h) : \E k \in 1..Len(candidates) : reMatch(candidates[k], h[i])}
  IN IF ok = {} THEN -1
     ELSE (CHOOSE i \in ok : \A j \in ok : i <= j) - 1

\* pickColumnIndex (593-600): the first candidate that matches any cell wins.
RECURSIVE pickFrom(_, _)
pickFrom(h, candidates) ==
  IF candidates = <<>> THEN -1
  ELSE LET idx == findIndex(h, Head(candidates))
       IN IF idx >= 0 THEN idx ELSE pickFrom(h, Tail(candidates))

\* headerRow.map((x) => norm(x))
RECURSIVE normAll(_)
normAll(row) ==
  IF row = <<>> THEN <<>> ELSE <<norm(Head(row))>> \o normAll(Tail(row))

pickColumnIndex(headerRow, candidates) == pickFrom(normAll(headerRow), candidates)

\* ------------------------------------------------------------------ worksheets
\* A worksheet is a grid anchored at A1: a sequence of rows of equal length
\* whose entries are cells or NoCell.  A workbook lists its sheet names in
\* order and maps each name to its worksheet.

IsBlankSheetRow(row) == \A i \in 1..Len(row) : row[i].t = "z"

\* make_json_row with header: 1, defval: "": a missing cell reads as "".
jsonRow(row) == [i \in 1..Len(row) |-> IF row[i].t = "z" THEN Str(<<>>) ELSE row[i]]

\* XLSX.utils.sheet_to_json(ws, {header: 1, defval: "", blankrows: false}):
\* rows without any cell are left out, the others are filled up with "".
RECURSIVE sheet_to_json(_)
sheet_to_json(ws) ==
  IF ws = <<>> THEN <<>>
  ELSE IF IsBlankSheetRow(Head(ws))
       THEN sheet_to_json(Tail(ws))
       ELSE <<jsonRow(Head(ws))>> \o sheet_to_json(Tail(ws))

\* getAoa (602-610); the sheet name is one of wb.SheetNames.
getAoa(wb, sheetName) == sheet_to_json(wb.Sheets[sheetName])

\* XLSX.utils.aoa_to_sheet: the cell at (R, C) holds aoa[R][C].
aoa_to_sheet(aoa) == aoa

\* The grid written over the first sheet of the workbook.
writeAoaFirst(wb, sheetName, aoa) ==
  [wb EXCEPT !.Sheets = [@ EXCEPT ![wb.SheetNames[1]] = aoa_to_sheet(aoa)]]

\* writeAoa (612-614)
writeAoa(wb, sheetName, aoa) ==
  [wb EXCEPT !.Sheets = [@ EXCEPT ![sheetName] = aoa_to_sheet(aoa)]]

\* wb.SheetNames[0] alone.
selectFirstSheetName(wb) ==
  IF Len(wb.SheetNames) >= 1 THEN <<At(wb.SheetNames, 0)>> ELSE <<>>

\* wb.SheetNames[1] ?? wb.SheetNames[0] (668); <<>> stands for undefined.
selectSheetName(wb) ==
  IF Len(wb.SheetNames) >= 2 THEN <<At(wb.SheetNames, 1)>>
  ELSE IF Len(wb.SheetNames) >= 1 THEN <<At(wb.SheetNames, 0)>>
  ELSE <<>>

\* ------------------------------------------------------------------ appended columns

\* DEPARTMENTS (630-636)
DEPARTMENTS == <<"frontend", "backend", "mobile", "htmlCss", "aiMl">>

\* headerLabel (638-652)
deptLabel(dept) ==
  CASE dept = "frontend" -> <<"F","r","o","n","t","e","n","d">>
    [] dept = "backend" -> <<"B","a","c","k","e","n","d">>
    [] dept = "mobile" -> <<"M","o","b","i","l","e">>
    [] dept = "htmlCss" -> <<"H","T","M","L","/","C","S","S">>
    [] dept = "aiMl" -> <<"A","I","/","M","L">>

keyLabel(k) ==
  CASE k = "min" -> <<"M","i","n">>
    [] k = "mostLikely" -> <<"M","o","s","t","L","i","k","e","l","y">>
    [] k = "max" -> <<"M","a","x">>

headerLabel(dept, k) ==
  Str(<<"A","I"," ">> \o deptLabel(dept) \o <<" ">> \o keyLabel(k))

\* The three headers of a department with the last two exchanged.
RECURSIVE deptHeadersSwapped(_)
deptHeadersSwapped(ds) ==
  IF ds = <<>> THEN <<>>
  ELSE <<headerLabel(Head(ds), "min"), headerLabel(Head(ds), "max"),
         headerLabel(Head(ds), "mostLikely")>> \o deptHeadersSwapped(Tail(ds))

\* The headers pushed at 708-721, in order.
RECURSIVE deptHeaders(_)
deptHeaders(ds) ==
  IF ds = <<>> THEN <<>>
  ELSE <<headerLabel(Head(ds), "min"), headerLabel(Head(ds), "mostLikely"),
         headerLabel(Head(ds), "max")>> \o deptHeaders(Tail(ds))

scalarHeaders ==
  << Str(<<"A","I"," ","C","o","n","f","i","d","e","n","c","e">>),
     Str(<<"A","I"," ","C","o","m","p","l","e","x","i","t","y">>),
     Str(<<"A","I"," ","T","e","c","h"," ","R","e","m","a","r","k","s">>),
     Str(<<"A","I"," ","U","s","e","r"," ","R","e","m","a","r","k">>) >>

appendedHeaders == deptHeaders(DEPARTMENTS) \o scalarHeaders

\* The three values of a department with the last two exchanged.
rangeCellsSwapped(rec, d) ==
  IF d \in DOMAIN rec.ranges
  THEN <<Num(rec.ranges[d].min), Num(rec.ranges[d].max), Num(rec.ranges[d].mostLikely)>>
  ELSE <<Str(<<>>), Str(<<>>), Str(<<>>)>>

\* The three values of a department, read under the application's name for it
\* when the record has none under the exporter's tag.
rangeCellsAliased(rec, d) ==
  LET alias == CASE d = "htmlCss" -> "html/css"
                 [] d = "aiMl" -> "AI-ML"
                 [] d = "frontend" -> "React"
                 [] d = "backend" -> "Node"
                 [] OTHER -> "Flutter"
      key == IF d \in DOMAIN rec.ranges THEN d ELSE alias
  IN IF key \in DOMAIN rec.ranges
     THEN <<Num(rec.ranges[key].min), Num(rec.ranges[key].mostLikely),
            Num(rec.ranges[key].max)>>
     ELSE <<Str(<<>>), Str(<<>>), Str(<<>>)>>

\* range?.min ?? "", range?.mostLikely ?? "", range?.max ?? "" (755-758)
rangeCells(rec, d) ==
  IF d \in DOMAIN rec.ranges
  THEN <<Num(rec.ranges[d].min), Num(rec.ranges[d].mostLikely), Num(rec.ranges[d].max)>>
  ELSE <<Str(<<>>), Str(<<>>), Str(<<>>)>>

RECURSIVE deptCells(_, _)
deptCells(rec, ds) ==
  IF ds = <<>> THEN <<>>
  ELSE rangeCells(rec, Head(ds)) \o deptCells(rec, Tail(ds))

\* The values written at 753-763, left to right from column baseLen.
scalarCells(rec) ==
  <<Str(rec.confidence), Str(rec.complexity), Str(rec.techRemarks), Str(rec.userRemark)>>

hitCells(rec) == deptCells(rec, DEPARTMENTS) \o scalarCells(rec)

\* row[c] = v in JavaScript: overwrite inside the row, extend it otherwise.
blanks(n) == [i \in 1..n |-> Str(<<>>)]

setCell(row, c, v) ==
  IF c < Len(row)
  THEN SubSeq(row, 1, c) \o <<v>> \o SubSeq(row, c + 2, Len(row))
  ELSE row \o blanks(c - Len(row)) \o <<v>>

RECURSIVE writeCells(_, _, _)
writeCells(row, c, vs) ==
  IF vs = <<>> THEN row
  ELSE writeCells(setCell(row, c, Head(vs)), c + 1, Tail(vs))

\* No padding: the row is left at its length.
padRowNone(row, n) == row

\* while (row.length < n) row.push("") (750)
padRow(row, n) ==
  IF Len(row) >= n THEN row
  ELSE row \o blanks(n - Len(row))

\* ------------------------------------------------------------------ lookups

mapSet(m, key, v) == [x \in DOMAIN m \cup {key} |-> IF x = key THEN v ELSE m[x]]
mapGet(m, key) == IF key \in DOMAIN m THEN m[key] ELSE 0
emptyMap == [x \in {} |-> 0]

\* The loop of 700-704 over rows[i..]; a record is named by its 1-based
\* position in rows, 0 stands for undefined.
RECURSIVE buildByFeatureIndex(_, _, _)
buildByFeatureIndex(rows, i, m) ==
  IF i > Len(rows) THEN m
  ELSE buildByFeatureIndex(rows, i + 1, mapSet(m, rows[i].featureIndex, i))

\* The name lookup overwriting like the index lookup.
nameKeySetLast(m, key, i) == IF key # <<>> THEN mapSet(m, key, i) ELSE m

\* The name lookup taking the empty key as well.
nameKeySetAny(m, key, i) == IF key \notin DOMAIN m THEN mapSet(m, key, i) ELSE m

\* if (key && !byFeatureName.has(key)) byFeatureName.set(key, r) (703)
nameKeySet(m, key, i) ==
  IF key # <<>> /\ key \notin DOMAIN m THEN mapSet(m, key, i) ELSE m

RECURSIVE buildByFeatureName(_, _, _)
buildByFeatureName(rows, i, m) ==
  IF i > Len(rows) THEN m
  ELSE buildByFeatureName(rows, i + 1, nameKeySet(m, norm(Str(rows[i].featureName)), i))

\* [...rows].sort((a, b) => a.featureIndex - b.featureIndex): a stable sort,
\* as positions into rows.
RECURSIVE insertSorted(_, _, _)
insertSorted(rows, sorted, i) ==
  IF sorted = <<>> THEN <<i>>
  ELSE IF rows[sorted[Len(sorted)]].featureIndex <= rows[i].featureIndex
       THEN sorted \o <<i>>
       ELSE insertSorted(rows, SubSeq(sorted, 1, Len(sorted) - 1), i)
              \o <<sorted[Len(sorted)]>>

RECURSIVE sortByFeatureIndex(_, _)
sortByFeatureIndex(rows, n) ==
  IF n = 0 THEN <<>>
  ELSE insertSorted(rows, sortByFeatureIndex(rows, n - 1), n)

\* ------------------------------------------------------------------ output name

endsWith(s, suffix) ==
  Len(s) >= Len(suffix) /\ SubSeq(s, Len(s) - Len(suffix) + 1, Len(s)) = suffix

\* name.replace(/\.(xlsx|xls)$/i, "") (771)
stripExtension(name) ==
  LET l == toLowerCase(name)
  IN IF endsWith(l, <<".","x","l","s","x">>) THEN SubSeq(name, 1, Len(name) - 5)
     ELSE IF endsWith(l, <<".","x","l","s">>) THEN SubSeq(name, 1, Len(name) - 4)
     ELSE name

\* outputFileName ?? `${baseName}_with_estimates.xlsx` (772); <<>> is undefined.
outName(fileName, outputFileName) ==
  IF outputFileName # <<>> THEN outputFileName[1]
  ELSE stripExtension(fileName) \o <<"_","w","i","t","h","_","e","s","t","i","m","a","t","e","s",".","x","l","s","x">>

\* ------------------------------------------------------------------ inputs
\* The inputs of a call are drawn from small sets: the selected sheet is up
\* to MaxLead rows without content, a header row, and up to MaxDataRows rows
\* below it; the record list has up to MaxRecords records.  The sets are
\* unions of families, each varying some of these widely and fixing the rest.

T(x) == Str(x)

Range(lo) == [min |-> lo, mostLikely |-> 2 * lo, max |-> 3 * lo]

AllRanges(lo) ==
  [d \in {"frontend", "backend", "mobile", "htmlCss", "aiMl"} |->
     Range(lo + (CHOOSE i \in 1..5 : DEPARTMENTS[i] = d))]

RecLogin ==
  [featureIndex |-> 1, featureName |-> <<"L","o","g","i","n">>, confidence |-> <<"H","i","g","h">>,
   complexity |-> <<"M">>, techRemarks |-> <<"t","1">>, userRemark |-> <<"u","1">>,
   ranges |-> [d \in {"frontend"} |-> Range(2)]]

RecLogout ==
  [featureIndex |-> 2, featureName |-> <<"L","o","g","o","u","t">>, confidence |-> <<"L","o","w">>,
   complexity |-> <<"S">>, techRemarks |-> <<"t","2">>, userRemark |-> <<"u","2">>,
   ranges |-> [d \in {"frontend"} |-> Range(1)]]

\* Shares its normalized name with RecTwin.
RecFirst ==
  [featureIndex |-> 0, featureName |-> <<"l","o","g","o","u","t">>, confidence |-> <<"M","e","d","i","u","m">>,
   complexity |-> <<"L">>, techRemarks |-> <<"t","0">>, userRemark |-> <<"u","0">>,
   ranges |-> AllRanges(10)]

\* Shares its featureIndex with RecLogin and its normalized name with RecLogout
\* and RecFirst.
RecTwin ==
  [featureIndex |-> 1, featureName |-> <<" "," ","L","O","G","O","U","T","\t">>, confidence |-> <<"M","e","d","i","u","m">>,
   complexity |-> <<"X","L">>, techRemarks |-> <<"t","3">>, userRemark |-> <<>>,
   ranges |-> AllRanges(20)]

\* toRange (36-51); an argument that is undefined is <<>>, else <<value>>.
toRange(maybeRange, maybeFlat) ==
  IF maybeRange # <<>>
  THEN [min |-> maybeRange[1].min, mostLikely |-> maybeRange[1].mostLikely,
        max |-> maybeRange[1].max]
  ELSE LET n == IF maybeFlat = <<>> THEN 0 ELSE maybeFlat[1]
       IN [min |-> n, mostLikely |-> n, max |-> n]

\* The keys of the ranges of a row built by load() (126-136).
LoadedDepartments ==
  {"React", "Next", "Vue", "Flutter", "React.Native", "html/css", "AI-ML",
   "Nest", "Node", "DotNet", "Blockchain"}

\* A row as load() builds it: ranges under the application's department names.
RecLoaded ==
  [featureIndex |-> 1, featureName |-> <<"L","o","g","i","n">>, confidence |-> <<"M","e","d","i","u","m">>,
   complexity |-> <<>>, techRemarks |-> <<"t","5">>, userRemark |-> <<>>,
   ranges |-> [d \in LoadedDepartments |-> toRange(<<>>, <<4>>)]]

\* Shares its featureIndex with RecLogin; its name is whitespace.
RecNameless ==
  [featureIndex |-> 1, featureName |-> <<" ">>, confidence |-> <<"L","o","w">>,
   complexity |-> <<"S">>, techRemarks |-> <<"t","4">>, userRemark |-> <<"u","4">>,
   ranges |-> AllRanges(30)]

RecordPool == {RecLogin, RecFirst, RecTwin}

SeqsUpTo(S, n) == UNION {[1..k -> S] : k \in 0..n}

\* The non-empty lists of distinct records.
RecordLists ==
  {s \in SeqsUpTo(RecordPool, MaxRecords) :
     /\ s # <<>>
     /\ \A i, j \in DOMAIN s : i # j => s[i] # s[j]}

HeaderRows ==
  { <<T(<<"S","r"," ","N","o">>), T(<<"F","e","a","t","u","r","e">>), T(<<"N","o","t","e","s">>)>>,
    <<T(<<"I","d">>), T(<<" ","F","e","a","t","u","r","e"," "," ","N","A","M","E">>), T(<<"N","o","t","e","s">>)>>,
    <<T(<<"S",".","N","o",".">>), T(<<"I","t","e","m">>), NoCell>> }

KeylessHeader == <<T(<<"I","d">>), T(<<"I","t","e","m">>), T(<<"N","o","t","e","s">>)>>

DataRows ==
  { <<T(<<"1"," ">>), T(<<"L","O","G","O","U","T"," ">>), NoCell>>,
    <<NoCell, T(<<" ","l","o","g","i","n">>), T(<<"-">>)>>,
    <<T(<<"x">>), T(<<"O","t","h","e","r">>), T(<<"-">>)>>,
    <<T(<<" ">>), NoCell, T(<<"\t">>)>> }

LeadRows ==
  { <<NoCell, NoCell, NoCell>>,
    <<T(<<" ">>), NoCell, NoCell>> }

\* k rows of the same kind above the header row.
Leads == {[i \in 1..k |-> row] : k \in 0..MaxLead, row \in LeadRows}

\* Rows above the header row, the header row, and up to n data rows below it.
LeadSheets(n) ==
  { lead \o <<h>> \o data :
      lead \in Leads, h \in HeaderRows, data \in SeqsUpTo(DataRows, n) }

\* A header row on top with the data rows below it, or rows above the header
\* row and at most one data row below it.
TargetSheets ==
  { <<h>> \o data : h \in HeaderRows, data \in SeqsUpTo(DataRows, MaxDataRows) }
  \cup LeadSheets(1)

CoverSheet == << <<T(<<"F","e","a","t","u","r","e">>), T(<<"N","o","t","e","s">>)>>, <<T(<<"C","o","v","e","r">>), T(<<"-">>)>> >>

SheetNamePool == <<"Sheet1", "Sheet2", "Sheet3", "Sheet4">>

\* A workbook of n sheets with ws at 0-based position p and the cover sheet
\* everywhere else.
Workbook(n, p, ws) ==
  [SheetNames |-> SubSeq(SheetNamePool, 1, n),
   Sheets |-> [nm \in {SheetNamePool[i] : i \in 1..n} |->
                 IF nm = SheetNamePool[p + 1] THEN ws ELSE CoverSheet]]

EmptyWorkbook == Workbook(0, 0, <<>>)

FileNames == { <<"p","l","a","n",".","x","l","s","x">>, <<"P","l","a","n",".","X","L","S">> }

File(name, wb) == [name |-> name, content |-> wb]

OutputFileNames == { <<>>, <<<<"o","u","t",".","x","l","s","x">>>> }

\* The calls whose inputs vary widely: one sheet, default output name.
RichParams ==
  { [originalFile |-> <<File(<<"p","l","a","n",".","x","l","s","x">>, Workbook(1, 0, ws))>>,
     rows |-> recs, outputFileName |-> <<>>] :
      ws \in TargetSheets, recs \in RecordLists }

\* The calls on a sheet with rows above the header row and several data rows,
\* the records out of featureIndex order.
LeadParams ==
  { [originalFile |-> <<File(<<"p","l","a","n",".","x","l","s","x">>, Workbook(1, 0, ws))>>,
     rows |-> <<RecTwin, RecFirst>>, outputFileName |-> <<>>] :
      ws \in LeadSheets(MaxDataRows) }

\* Data rows for a list with a nameless record: one without a usable index
\* or name, one with both.
NamelessRows ==
  { <<T(<<"x">>), T(<<" ">>), T(<<"-">>)>>,
    <<T(<<"1"," ">>), T(<<"L","O","G","O","U","T"," ">>), NoCell>> }

\* The calls whose record list holds a record without a name.
NamelessParams ==
  { [originalFile |-> <<File(<<"p","l","a","n",".","x","l","s","x">>, Workbook(1, 0, <<h>> \o data))>>,
     rows |-> recs, outputFileName |-> <<>>] :
      h \in HeaderRows, data \in SeqsUpTo(NamelessRows, 2),
      recs \in {<<RecLogin, RecNameless>>, <<RecNameless, RecLogin>>,
                <<RecTwin, RecNameless>>} }

\* The calls given rows as load() builds them.
LoadedParams ==
  { [originalFile |-> <<File(<<"p","l","a","n",".","x","l","s","x">>, Workbook(1, 0, <<h, row>>))>>,
     rows |-> recs, outputFileName |-> <<>>] :
      h \in HeaderRows, row \in DataRows,
      recs \in {<<RecLoaded>>, <<RecLoaded, RecLogout>>, <<RecFirst, RecLoaded>>} }

\* Data rows with content whose first cell is empty or whitespace.
BlankIndexRows ==
  { <<T(<<" ","\t">>), T(<<"L","o","g","i","n">>), T(<<"-">>)>>,
    <<T(<<>>), T(<<"L","O","G","O","U","T">>), NoCell>> }

\* The calls on a sheet with one such row below the header row.
BlankIndexParams ==
  { [originalFile |-> <<File(<<"p","l","a","n",".","x","l","s","x">>, Workbook(1, 0, <<h, row>>))>>,
     rows |-> recs, outputFileName |-> <<>>] :
      h \in HeaderRows, row \in BlankIndexRows, recs \in RecordLists }

\* The calls on a sheet without content: rows of whitespace, or rows without
\* cells.
BlankParams ==
  { [originalFile |-> <<File(<<"p","l","a","n",".","x","l","s","x">>, Workbook(1, 0, ws))>>,
     rows |-> <<RecLogin>>, outputFileName |-> <<>>] :
      ws \in Leads \ {<<>>} }

\* The calls on a sheet none of whose rows names a key column.
KeylessParams ==
  { [originalFile |-> <<File(<<"p","l","a","n",".","x","l","s","x">>, Workbook(1, 0, lead \o <<KeylessHeader>> \o data))>>,
     rows |-> <<RecLogin>>, outputFileName |-> <<>>] :
      lead \in Leads, data \in SeqsUpTo(DataRows, 1) }

\* Header rows in which several cells name a key column.
PriorityHeaders ==
  { <<T(<<"N","a","m","e">>), T(<<"F","e","a","t","u","r","e">>), T(<<"F","E","A","T","U","R","E"," ">>)>>,
    <<T(<<"S"," ","N","o">>), T(<<"S","r"," ","N","o",".">>), T(<<"I","n","d","e","x">>)>>,
    <<T(<<"T","i","t","l","e">>), T(<<"S","r"," ","N","o">>), T(<<"F","e","a","t","u","r","e","s">>)>>,
    <<T(<<"n","a","m","e">>), T(<<"S",".","N","o">>), T(<<"F","e","a","t","u","r","e"," ","N","a","m","e">>)>> }

\* Header rows whose cells come close to the names of the key columns.
LooseHeaders ==
  { <<T(<<"s","r","n","o">>), T(<<"F","e","a","t","u","r","e","N","a","m","e">>), T(<<"F","e","a","t","u","r","e"," ","L","i","s","t">>)>>,
    <<T(<<"S","r","."," ","N","o">>), T(<<"F","e","a","t","u","r","e"," "," ","L","i","s","t">>), T(<<"N","a","m","e","s">>)>>,
    <<T(<<"F","e","a","t","u","r","e"," ","I","n","d","e","x">>), T(<<" ","T","I","T","L","E">>), T(<<"s"," ","n","o",".">>)>> }

\* The headers [Name, Feature] above one data row.
NameFeatureSheet ==
  << <<T(<<"N","a","m","e">>), T(<<"F","e","a","t","u","r","e">>)>>,
     <<T(<<"L","o","g","i","n">>), T(<<"L","O","G","O","U","T"," ">>)>> >>

\* The calls on a sheet whose header row has several candidates for a key, or
\* cells close to one.
PriorityParams ==
  { [originalFile |-> <<File(<<"p","l","a","n",".","x","l","s","x">>, Workbook(1, 0, ws))>>,
     rows |-> <<RecLogin, RecTwin>>, outputFileName |-> <<>>] :
      ws \in {<<h>> \o data : h \in PriorityHeaders \cup LooseHeaders,
                                 data \in SeqsUpTo(DataRows, 1)}
             \cup {NameFeatureSheet} }

ScenarioSheet ==
  << <<T(<<"S","r"," ","N","o">>), T(<<"F","e","a","t","u","r","e">>), T(<<"N","o","t","e","s">>)>>,
     <<Num(1), T(<<"L","o","g","i","n">>), T(<<"-">>)>>,
     <<Num(2), T(<<"L","o","g","o","u","t">>), T(<<"-">>)>> >>

\* The calls whose workbook, file and names vary: any number of sheets with
\* the scenario sheet at any position, or no file at all.
BookParams ==
  { [originalFile |-> f, rows |-> recs, outputFileName |-> out] :
      f \in {<<>>} \cup
            { <<File(nm, Workbook(n, p, ws))>> :
                nm \in FileNames, n \in 1..MaxSheets, p \in 0..(MaxSheets - 1),
                ws \in {ScenarioSheet, <<>>} }
            \cup { <<File(nm, EmptyWorkbook)>> : nm \in FileNames },
      recs \in {<<>>, <<RecLogout, RecLogin>>},
      out \in OutputFileNames }

\* ------------------------------------------------------------------ state

Calls == {1, 2, 3}

VARIABLES
  params,            \* params[c]: the argument of call c
  pc,                \* pc[c]: where call c stands
  error,             \* error[c]: the message of the Error thrown, "" if none
  wb,                \* wb[c]: the workbook parsed by call c
  sheetName,         \* sheetName[c]: <<name>> once selected
  aoa,               \* aoa[c]: the grid being annotated
  headerRowIndex, featureCol, featureIndexCol,
  byFeatureName, byFeatureIndex,
  baseLen,
  r,                 \* r[c]: the loop variable of the fill loop
  hit,               \* hit[c][row]: the record chosen for aoa row `row` (0: none)
  downloads,         \* what downloadArrayAsXlsx was handed, in order
  session,           \* the session provider's state
  page,              \* ResultsPage's state
  status,            \* StatusPage's state, its timer ref and the poll timers set
  net                \* apiFetch: the offline flag and the requests in flight

vars == <<params, pc, error, wb, sheetName, aoa, headerRowIndex, featureCol,
          featureIndexCol, byFeatureName, byFeatureIndex, baseLen, r, hit,
          downloads, session, page, status, net>>

\* Error messages (661-695), under the names of the error taxonomy.
MissingFile == "Missing original Excel file"
NoEstimatesProvided == "No estimates to export"
NoSheetsFound == "No sheets found in uploaded workbook"
EmptySheet == "Uploaded sheet is empty"
MissingKeyColumn ==
  "Could not find a 'Feature' or 'Feature Index' column in the uploaded sheet"

\* ------------------------------------------------------------------ apiFetch
\* state/api-status.tsx. A request is between its steps at the await of
\* fetch() ("fetch"), of readBodySafe ("body", 71) and of the body promise it
\* returned ("json", 80); its caller resumes in the step that settles it.

DEFAULT_TIMEOUT_MS == 10000

Reqs == 1..MaxRequests

\* Math.max, Math.min
MathMax(a, b) == IF a >= b THEN a ELSE b
MathMin(a, b) == IF a <= b THEN a ELSE b

\* What a caller keeps across its await: the session id, the backoffMs of the
\* render its closure was made in, the row and featureIndex of a regenerate,
\* the file of an upload.
NoCaller ==
  [kind |-> "none", id |-> <<>>, seen |-> 0, row |-> <<>>, featureIndex |-> 0,
   file |-> <<>>]

\* A response body: the fields read by the callers and by apiFetch (73).
NoBody ==
  [status |-> "", result |-> <<>>, estimate |-> <<>>, sessionId |-> <<>>,
   message |-> <<>>]

\* An HTTP response; malformed: the body is not the JSON its header announces.
Response(code, body, malformed) ==
  [status |-> code, body |-> body, malformed |-> malformed]

NoResponse == Response(0, NoBody, FALSE)

\* res.ok
ok(res) == res.status >= 200 /\ res.status <= 299

\* How a call ended, as its caller sees it.
Returned(body) ==
  [kind |-> "returned", body |-> body, name |-> "", status |-> 0, message |-> ""]
Thrown(name, code, message) ==
  [kind |-> "thrown", body |-> NoBody, name |-> name, status |-> code,
   message |-> message]

TimedOut ==
  "Request timed out. The server may be busy processing the upload-please try again (or increase the timeout)."
CannotReach == "Cannot reach backend. Check server/CORS and try again."

\* `Request failed (${res.status})` (75)
requestFailed(code) ==
  CASE code = 429 -> "Request failed (429)"
    [] code = 500 -> "Request failed (500)"
    [] OTHER -> "Request failed"

\* 72-75: the message of the ApiError, body being what readBodySafe gave.
apiErrorMessage(res, bodyRead) ==
  IF bodyRead /\ ~res.malformed /\ res.body.message # <<>>
  THEN res.body.message[1]
  ELSE requestFailed(res.status)

IdleReq ==
  [pc |-> "idle", timer |-> FALSE, timeoutMs |-> 0, caller |-> NoCaller,
   res |-> NoResponse]

\* The catch block with an abort taken for a network error.
catchBlockAbortOffline(err, offline) ==
  CASE err.name \in {"AbortError", "TypeError"} ->
         [offline |-> TRUE, outcome |-> Thrown("Error", 0, CannotReach)]
    [] OTHER -> [offline |-> offline, outcome |-> err]

\* 82-94: the catch block; the offline flag and what is thrown on.
catchBlock(err, offline) ==
  CASE err.name = "AbortError" ->
         [offline |-> FALSE, outcome |-> Thrown("Error", 0, TimedOut)]
    [] err.name = "TypeError" ->
         [offline |-> TRUE, outcome |-> Thrown("Error", 0, CannotReach)]
    [] OTHER -> [offline |-> offline, outcome |-> err]

HasIdleReq == \E q \in Reqs : net.req[q].pc = "idle"
IdleReqOf(n) == CHOOSE q \in Reqs :
                  /\ n.req[q].pc = "idle"
                  /\ \A p \in Reqs : n.req[p].pc = "idle" => q <= p

\* 55-61: the call up to the await of fetch(); the timeout timer is started.
apiFetch(n, caller, timeoutMs) ==
  [n EXCEPT !.req[IdleReqOf(n)] =
     [pc |-> "fetch", timer |-> TRUE, timeoutMs |-> timeoutMs, caller |-> caller,
      res |-> NoResponse]]

\* The call ends: 95-97 clears the timer, the promise settles; last keeps
\* what ended the latest call (the body returned was read: "json", ApiError
\* was thrown: "body", the timer fired: "aborted", fetch() rejected:
\* "rejected") and the name and status of what was thrown to its caller.
settle(n, q, cause, offline, outcome) ==
  [offline |-> offline,
   req |-> [n.req EXCEPT ![q] = IdleReq],
   last |-> [cause |-> cause, name |-> outcome.name, status |-> outcome.status]]

\* ---------------------------------------------------------------- StatusPage
\* unnamed/part_002 (328-600). The poll timers are those of window.setTimeout:
\* pending holds the ones set and neither fired nor cleared, pollTimer is
\* pollTimer.current (0: null).

BASE_POLL_MS == 10000
MAX_BACKOFF_MS == 30000

Terminal == {"COMPLETED", "FAILED"}

\* clearTimer (362-365)
clearTimer(st) ==
  [st EXCEPT !.pending = {t \in @ : t.id # st.pollTimer}, !.pollTimer = 0]

\* The id window.setTimeout hands out: one that names no timer still known.
newTimerId(st) ==
  CHOOSE i \in 1..(Cardinality(st.pending) + 2) :
    /\ i # st.pollTimer
    /\ \A t \in st.pending : t.id # i
    /\ \A j \in 1..(i - 1) : j = st.pollTimer \/ \E t \in st.pending : t.id = j

\* scheduleNextPoll (367-378); the callback keeps id and the closure it was
\* made in, whose backoffMs is seen.
scheduleNextPoll(st, id, delayMs, seen) ==
  LET cleared == clearTimer(st)
      safeDelay == MathMax(1000, delayMs)
      tid == newTimerId(cleared)
  IN [cleared EXCEPT !.nextPollMs = safeDelay, !.pollTimer = tid,
                     !.pending = @ \cup {[id |-> tid, sid |-> id, seen |-> seen,
                                          delay |-> safeDelay]}]

\* A state setter of an unmounted component does nothing; the ref and the
\* timers are outside React.
render(st, n) ==
  IF st.mounted THEN n ELSE [st EXCEPT !.pollTimer = n.pollTimer, !.pending = n.pending]

\* err?.message || fallback
messageOr(out, fallback) == IF out.message # "" THEN out.message ELSE fallback

\* The bump without the cap of MAX_BACKOFF_MS.
bumpedUncapped(seen) == MathMax(BASE_POLL_MS, seen + BASE_POLL_MS)

\* Math.min(MAX_BACKOFF_MS, Math.max(BASE_POLL_MS, backoffMs + BASE_POLL_MS)) (395)
bumped(seen) == MathMin(MAX_BACKOFF_MS, MathMax(BASE_POLL_MS, seen + BASE_POLL_MS))

\* `Too many requests (429). Backing off to every ${Math.round(bumped / 1000)}s...` (397)
tooManyRequests(ms) ==
  CASE ms = 10000 -> "Too many requests (429). Backing off to every 10s..."
    [] ms = 20000 -> "Too many requests (429). Backing off to every 20s..."
    [] ms = 30000 -> "Too many requests (429). Backing off to every 30s..."
    [] OTHER -> "Too many requests (429). Backing off..."

\* 423-437 and 446-452: startPolling from its await on; the effect on
\* [status] repeats the terminal branch.
startPollingResumes(st, caller, out) ==
  LET n == IF out.kind = "returned"
           THEN LET s1 == [st EXCEPT !.status = out.body.status]
                IN IF out.body.status \in Terminal
                   THEN [clearTimer(s1) EXCEPT !.polling = FALSE]
                   ELSE scheduleNextPoll(s1, caller.id, BASE_POLL_MS, caller.seen)
           ELSE [clearTimer(st) EXCEPT
                   !.error = messageOr(out, "Failed to fetch status"),
                   !.polling = FALSE]
  IN render(st, [n EXCEPT !.loading = FALSE])

\* The poll that schedules the next one whatever the status.
pollResumesOn(st, caller, out) ==
  IF out.kind = "returned"
  THEN render(st, scheduleNextPoll([st EXCEPT !.status = out.body.status,
                                              !.backoffMs = BASE_POLL_MS],
                                   caller.id, BASE_POLL_MS, caller.seen))
  ELSE render(st, [clearTimer(st) EXCEPT
                     !.polling = FALSE,
                     !.error = messageOr(out, "Failed to poll status")])

\* pollOnceAndReschedule from its await on (382-406), and 446-452.
pollResumes(st, caller, out) ==
  IF out.kind = "returned"
  THEN LET s1 == [st EXCEPT !.status = out.body.status]
       IN IF out.body.status \in Terminal
          THEN render(st, [clearTimer(s1) EXCEPT !.polling = FALSE])
          ELSE render(st, scheduleNextPoll([s1 EXCEPT !.backoffMs = BASE_POLL_MS],
                                           caller.id, BASE_POLL_MS, caller.seen))
  ELSE IF out.name = "ApiError" /\ out.status = 429
       THEN render(st, scheduleNextPoll(
                         [st EXCEPT !.backoffMs = bumped(caller.seen),
                                    !.error = tooManyRequests(bumped(caller.seen))],
                         caller.id, bumped(caller.seen), caller.seen))
       ELSE render(st, [clearTimer(st) EXCEPT
                          !.polling = FALSE,
                          !.error = messageOr(out, "Failed to poll status")])

\* ---------------------------------------------------- the session provider
\* unnamed/part_001 (27-78): the fields the pages below read and set.

\* setActiveSessionId (40-45)
setActiveSessionId(se, id) == [se EXCEPT !.activeSessionId = trim(id)]

\* setUploadedExcelSessionId (47-49)
setUploadedExcelSessionId(se, id) == [se EXCEPT !.uploadedExcelSessionId = trim(id)]

\* handleUpload from its await on, for an Excel upload that succeeded
\* (part_002 121-128); file is <<the file>>, excelSessionId is
\* excel.sessionId, <<>> when absent.
handleUploadResumes(se, file, excelSessionId) ==
  LET sessionId == trim(IF excelSessionId = <<>> THEN <<>> ELSE excelSessionId[1])
      s1 == IF sessionId # <<>> THEN setActiveSessionId(se, sessionId) ELSE se
  IN setUploadedExcelSessionId([s1 EXCEPT !.uploadedExcelFile = file], sessionId)

\* --------------------------------------------------------------- ResultsPage
\* pages/ResultsPage.tsx (66-350). A list that may be null is <<>> or <<list>>;
\* an optional field of a server item is <<>> or <<value>>.

\* x || ... on an optional string: defined and not empty.
truthy(x) == x # <<>> /\ x[1] # <<>>

\* The property prefix under which load() and regenerate read a department's
\* hours (126-136, 186-196).
prefixOf(dept) ==
  CASE dept = "React" -> "react"
    [] dept = "Next" -> "next"
    [] dept = "Vue" -> "vue"
    [] dept = "Flutter" -> "flutter"
    [] dept = "React.Native" -> "reactNative"
    [] dept = "html/css" -> "htmlCss"
    [] dept = "AI-ML" -> "aiMl"
    [] dept = "Nest" -> "nest"
    [] dept = "Node" -> "node"
    [] dept = "DotNet" -> "dotNet"
    [] dept = "Blockchain" -> "blockchain"

\* The ranges of a row built from item it (125-137, 185-197).
itemRanges(it) ==
  [d \in LoadedDepartments |->
     toRange(IF prefixOf(d) \in DOMAIN it.hoursRange
             THEN <<it.hoursRange[prefixOf(d)]>> ELSE <<>>,
             IF prefixOf(d) \in DOMAIN it.hours
             THEN <<it.hours[prefixOf(d)]>> ELSE <<>>)]

Medium == <<"M","e","d","i","u","m">>

\* it.confidence || it.batchConfidenceDelta || 'Medium' (113, 176)
confidenceOf(it) ==
  IF truthy(it.confidence) THEN it.confidence[1]
  ELSE IF truthy(it.batchConfidenceDelta) THEN it.batchConfidenceDelta[1]
  ELSE Medium

\* String(x || '')
stringOr(x) == IF truthy(x) THEN x[1] ELSE <<>>

\* 110-138: the row load() builds from item it at position idx (0-based); no
\* feature descriptions are held.
mappedRow(it, idx) ==
  [featureIndex |-> IF it.featureIndex # <<>> THEN it.featureIndex[1] ELSE idx,
   batch |-> stringOr(it.batch),
   featureName |-> stringOr(it.featureName),
   featureDescription |-> <<>>,
   confidence |-> confidenceOf(it),
   complexity |-> stringOr(it.complexity),
   techRemarks |-> stringOr(it.techRemarks),
   userRemark |-> stringOr(it.userRemark),
   ranges |-> itemRanges(it)]

mapped(items) == [i \in 1..Len(items) |-> mappedRow(items[i], i - 1)]

\* 176-198: the row regenerate builds from the row it was given and item it.
updatedRow(row, it) ==
  [row EXCEPT
     !.batch = IF truthy(it.batch) THEN it.batch[1] ELSE row.batch,
     !.featureName = IF truthy(it.featureName) THEN it.featureName[1]
                     ELSE row.featureName,
     !.confidence = confidenceOf(it),
     !.complexity = IF truthy(it.complexity) THEN it.complexity[1]
                    ELSE row.complexity,
     !.techRemarks = IF truthy(it.techRemarks) THEN it.techRemarks[1]
                     ELSE row.techRemarks,
     !.userRemark = IF it.userRemark # <<>> THEN it.userRemark[1]
                    ELSE row.userRemark,
     !.ranges = itemRanges(it)]

\* next.findIndex((r) => r.featureIndex === featureIndex), 1-based; 0: none.
findRow(list, featureIndex) ==
  LET at == {i \in 1..Len(list) : list[i].featureIndex = featureIndex}
  IN IF at = {} THEN 0 ELSE CHOOSE i \in at : \A j \in at : i <= j

\* The updaters of 200-214: the first row with the featureIndex is replaced.
replaceRow(list, featureIndex, row) ==
  IF list = <<>> THEN list
  ELSE LET i == findRow(list[1], featureIndex)
       IN IF i = 0 THEN list ELSE <<[list[1] EXCEPT ![i] = row]>>

NoActiveSession == "No active sessionId. Upload Excel first (Upload page)."
NoEstimateReturned == "Regenerate succeeded but no estimate returned"

\* load from its await on (108-146).
loadResumes(pg, out) ==
  IF out.kind = "returned"
  THEN [pg EXCEPT !.original = <<mapped(out.body.result)>>,
                  !.draft = <<mapped(out.body.result)>>,
                  !.loading = FALSE]
  ELSE [pg EXCEPT !.error = messageOr(out, "Failed to load results"),
                  !.loading = FALSE]

\* A regenerate that leaves the original list as it is.
regenerateResumesDraftOnly(pg, caller, out) ==
  LET done == [pg EXCEPT !.regenerating = mapSet(@, caller.featureIndex, FALSE)]
  IN IF out.kind = "returned"
     THEN IF out.body.estimate = <<>>
          THEN [done EXCEPT !.error = NoEstimateReturned]
          ELSE LET row == updatedRow(caller.row[1], out.body.estimate[1])
               IN [done EXCEPT
                     !.draft = replaceRow(@, caller.featureIndex, row)]
     ELSE [done EXCEPT !.error = messageOr(out, "Failed to regenerate estimate")]

\* regenerate from its await on (170-219).
regenerateResumes(pg, caller, out) ==
  LET done == [pg EXCEPT !.regenerating = mapSet(@, caller.featureIndex, FALSE)]
  IN IF out.kind = "returned"
     THEN IF out.body.estimate = <<>>
          THEN [done EXCEPT !.error = NoEstimateReturned]
          ELSE LET row == updatedRow(caller.row[1], out.body.estimate[1])
               IN [done EXCEPT
                     !.original = replaceRow(@, caller.featureIndex, row),
                     !.draft = replaceRow(@, caller.featureIndex, row)]
     ELSE [done EXCEPT !.error = messageOr(out, "Failed to regenerate estimate")]

\* The updater of updateRange (227-234).
updateRangeRow(row, dept, key, value) ==
  [row EXCEPT !.ranges = [@ EXCEPT ![dept] = [@ EXCEPT ![key] = value]]]

\* The updater of updateField (239-243).
updateFieldRow(row, key, value) == [row EXCEPT ![key] = value]

NoResultsToExport == "No results to export. Load results first."
OriginalFileNotFound ==
  "Original Excel file not found. Re-upload the Excel (Upload page) without refreshing, then try again."
SessionMismatch ==
  "The uploaded Excel file does not match the current sessionId. Re-upload the Excel for this session, then export again."

\* The checks with the session ids compared only, empty or not.
exportErrorEqualIds(pg, se) ==
  IF pg.draft = <<>> \/ Len(pg.draft[1]) = 0 THEN NoResultsToExport
  ELSE IF se.uploadedExcelFile = <<>> THEN OriginalFileNotFound
  ELSE IF se.activeSessionId # se.uploadedExcelSessionId THEN SessionMismatch
  ELSE ""

\* 327-340: the message of the check that stops the export, "" if none does.
exportError(pg, se) ==
  LET currentSession == trim(se.activeSessionId)
      fileSession == trim(se.uploadedExcelSessionId)
  IN IF pg.draft = <<>> \/ Len(pg.draft[1]) = 0 THEN NoResultsToExport
     ELSE IF se.uploadedExcelFile = <<>> THEN OriginalFileNotFound
     ELSE IF currentSession = <<>> \/ fileSession = <<>> \/ currentSession # fileSession
          THEN SessionMismatch
     ELSE ""

\* ------------------------------------------------- the application's inputs

\* A server item with no field set.
NoItem ==
  [featureIndex |-> <<>>, batch |-> <<>>, featureName |-> <<>>,
   confidence |-> <<>>, batchConfidenceDelta |-> <<>>, complexity |-> <<>>,
   techRemarks |-> <<>>, userRemark |-> <<>>,
   hoursRange |-> [x \in {} |-> 0], hours |-> [x \in {} |-> 0]]

ItemLogin ==
  [NoItem EXCEPT !.featureIndex = <<1>>, !.featureName = <<<<"L","o","g","i","n">>>>,
                 !.confidence = <<<<"H","i","g","h">>>>, !.complexity = <<<<"M">>>>,
                 !.hoursRange = [x \in {"htmlCss", "frontend"} |-> Range(2)],
                 !.hours = [x \in {"aiMl"} |-> 5]]

\* No featureIndex: load() gives it its position.
ItemLogout ==
  [NoItem EXCEPT !.featureName = <<<<"L","o","g","o","u","t">>>>, !.batchConfidenceDelta = <<<<"L","o","w">>>>,
                 !.userRemark = <<<<"k","e","e","p">>>>,
                 !.hours = [x \in {"react"} |-> 3]]

\* Shares its featureIndex with ItemLogin.
ItemTwin ==
  [NoItem EXCEPT !.featureIndex = <<1>>, !.featureName = <<<<"L","O","G","I","N"," ">>>>,
                 !.techRemarks = <<<<"t","2">>>>]

\* What a regenerate answers with: every field set, the remark emptied.
ItemNew ==
  [NoItem EXCEPT !.featureIndex = <<1>>, !.featureName = <<<<"S","i","g","n"," ","i","n">>>>,
                 !.confidence = <<<<"L","o","w">>>>, !.complexity = <<<<"L">>>>,
                 !.techRemarks = <<<<"t","9">>>>, !.userRemark = <<<<>>>>,
                 !.hours = [x \in {"react", "node"} |-> 7]]

S1 == <<"s","1">>
S2 == <<"s","2">>

\* What localStorage holds at start: nothing, or an id the provider stored.
SavedSessionIds == {<<>>, S1}

\* What is typed into the session id field.
SessionIdInputs == {<<>>, <<" ","s","1"," ">>, S2}

StatusResponses ==
  {Response(200, [NoBody EXCEPT !.status = s], FALSE) :
     s \in {"PROCESSING", "COMPLETED", "FAILED"}}
  \cup {Response(200, NoBody, TRUE),
        Response(429, NoBody, FALSE),
        Response(429, [NoBody EXCEPT !.message = <<"Slow down">>], FALSE),
        Response(500, NoBody, TRUE)}

LoadResponses ==
  {Response(200, [NoBody EXCEPT !.status = "COMPLETED", !.result = items], FALSE) :
     items \in {<<>>, <<ItemLogin, ItemLogout>>, <<ItemLogin, ItemTwin>>}}
  \cup {Response(500, [NoBody EXCEPT !.message = <<"No such session">>], FALSE)}

RegenerateResponses ==
  {Response(200, [NoBody EXCEPT !.estimate = e], FALSE) :
     e \in {<<>>, <<ItemNew>>, <<NoItem>>}}
  \cup {Response(429, NoBody, FALSE)}

UploadResponses ==
  {Response(200, [NoBody EXCEPT !.sessionId = sid], FALSE) :
     sid \in {<<>>, <<<<" ","s","1"," ">>>>, <<S2>>}}
  \cup {Response(500, NoBody, FALSE)}

Responses(kind) ==
  CASE kind \in {"startPolling", "poll"} -> StatusResponses
    [] kind = "load" -> LoadResponses
    [] kind = "regenerate" -> RegenerateResponses

\* The files chosen on the upload page.
UploadFiles ==
  { File(<<"p","l","a","n",".","x","l","s","x">>, Workbook(1, 0, ScenarioSheet)),
    File(<<"P","l","a","n",".","X","L","S">>, Workbook(1, 0, <<KeylessHeader>>)) }

\* The local edits: what is typed into a field or a range of the table.
EditedFields == {"userRemark"}
EditedText == {<<"e">>}
EditedDepartments == {"React"}
EditedKeys == {"min"}
EditedHours == {9}

\* ---------------------------------------------------- the application state

NoSession ==
  [activeSessionId |-> <<>>, uploadedExcelFile |-> <<>>,
   uploadedExcelSessionId |-> <<>>]

\* useState of 70-74; exporting holds the engine calls awaited at 343,
\* exported counts the runs of exportAnnotatedOriginalExcel, edits the local
\* edits of the table, fetches the requests made.
NewPage ==
  [loading |-> FALSE, error |-> "", original |-> <<>>, draft |-> <<>>,
   regenerating |-> [x \in {} |-> FALSE], exporting |-> {}, exported |-> 0,
   edits |-> 0, fetches |-> 0]

\* useState and useRef of 347-354 (part_002).
NewStatus(activeSessionId) ==
  [sessionId |-> activeSessionId, status |-> "", loading |-> FALSE,
   polling |-> FALSE, nextPollMs |-> BASE_POLL_MS, backoffMs |-> BASE_POLL_MS,
   error |-> "", pollTimer |-> 0, pending |-> {}, mounted |-> TRUE]

NewNet ==
  [offline |-> FALSE, req |-> [q \in Reqs |-> IdleReq],
   last |-> [cause |-> "none", name |-> "", status |-> 0]]

\* The application as it starts with saved in localStorage (part_001 35-38).
InitApp(saved) ==
  /\ session = [NoSession EXCEPT !.activeSessionId = saved]
  /\ page = NewPage
  /\ status = NewStatus(saved)
  /\ net = NewNet

\* ---------------------------------------------------------------- the engine

IdleParams == [originalFile |-> <<>>, rows |-> <<>>, outputFileName |-> <<>>]

InitLocals ==
  /\ pc = [c \in Calls |-> "idle"]
  /\ error = [c \in Calls |-> ""]
  /\ wb = [c \in Calls |-> EmptyWorkbook]
  /\ sheetName = [c \in Calls |-> <<>>]
  /\ aoa = [c \in Calls |-> <<>>]
  /\ headerRowIndex = [c \in Calls |-> 0]
  /\ featureCol = [c \in Calls |-> -1]
  /\ featureIndexCol = [c \in Calls |-> -1]
  /\ byFeatureName = [c \in Calls |-> emptyMap]
  /\ byFeatureIndex = [c \in Calls |-> emptyMap]
  /\ baseLen = [c \in Calls |-> 0]
  /\ r = [c \in Calls |-> 0]
  /\ hit = [c \in Calls |-> emptyMap]
  /\ downloads = <<>>

\* One call; the other calls are never made.
Init ==
  /\ \E p \in RichParams \cup LeadParams \cup NamelessParams \cup LoadedParams
                 \cup BlankIndexParams
                 \cup BlankParams
                 \cup KeylessParams
                 \cup PriorityParams
                 \cup BookParams :
       params = [c \in Calls |-> IF c = 1 THEN p ELSE IdleParams]
  /\ InitLocals
  /\ InitApp(<<>>)

\* JavaScript runs a call's synchronous code to completion: a call moves
\* only while no other call is between two of its steps.
Suspended(c) == pc[c] \in {"idle", "await", "done", "failed"}
MayRun(c) == \A d \in Calls \ {c} : Suspended(d)

Throw(c, msg) ==
  /\ pc' = [pc EXCEPT ![c] = "failed"]
  /\ error' = [error EXCEPT ![c] = msg]

\* The argument checks with the record list looked at first.
argumentErrorRowsFirst(p) ==
  IF Len(p.rows) = 0 THEN NoEstimatesProvided
  ELSE IF p.originalFile = <<>> THEN MissingFile
  ELSE ""

\* 661-662: the message of the argument check that throws, "" if none does.
argumentError(p) ==
  IF p.originalFile = <<>> THEN MissingFile
  ELSE IF Len(p.rows) = 0 THEN NoEstimatesProvided
  ELSE ""

\* 659-664: the argument checks, up to the await of arrayBuffer().
Invoke(c) ==
  /\ pc[c] = "idle"
  /\ MayRun(c)
  /\ IF argumentError(params[c]) # "" THEN Throw(c, argumentError(params[c]))
     ELSE pc' = [pc EXCEPT ![c] = "await"] /\ UNCHANGED error
  /\ UNCHANGED <<session, page, status, net>>
  /\ UNCHANGED <<params, wb, sheetName, aoa, headerRowIndex, featureCol,
                 featureIndexCol, byFeatureName, byFeatureIndex, baseLen, r,
                 hit, downloads>>

\* A parse that is shared: the workbook object of a finished call on the same
\* file is handed out again.
readShared(file) ==
  IF \E d \in Calls : pc[d] = "done" /\ params[d].originalFile = <<file>>
  THEN wb[CHOOSE d \in Calls : pc[d] = "done" /\ params[d].originalFile = <<file>>]
  ELSE file.content

\* XLSX.read(ab): a workbook of the call's own, equal to the file's content.
read(file) == file.content

\* The check for an empty grid left out.
isEmptyGridNever(grid) == FALSE

\* aoa.length === 0 (672)
isEmptyGrid(grid) == Len(grid) = 0

\* 665-672: parse, select the sheet, read its grid.
ReadSheet(c) ==
  /\ pc[c] = "await"
  /\ MayRun(c)
  /\ LET book == read(params[c].originalFile[1])
         name == selectSheetName(book)
     IN /\ wb' = [wb EXCEPT ![c] = book]
        /\ sheetName' = [sheetName EXCEPT ![c] = name]
        /\ IF name = <<>>
           THEN Throw(c, NoSheetsFound) /\ UNCHANGED aoa
           ELSE /\ aoa' = [aoa EXCEPT ![c] = getAoa(book, name[1])]
                /\ IF isEmptyGrid(getAoa(book, name[1]))
                   THEN Throw(c, EmptySheet)
                   ELSE pc' = [pc EXCEPT ![c] = "locate"] /\ UNCHANGED error
  /\ UNCHANGED <<session, page, status, net>>
  /\ UNCHANGED <<params, headerRowIndex, featureCol, featureIndexCol,
                 byFeatureName, byFeatureIndex, baseLen, r, hit, downloads>>

\* aoa[headerRowIndex] ?? [] (675)
headerRowOf(grid, idx) == IF idx < Len(grid) THEN At(grid, idx) ELSE <<>>

\* featureCol < 0 && featureIndexCol < 0 (691)
noKeyColumn(fc, fic) == fc < 0 /\ fic < 0

\* 674-695: locate the header row and the two key columns.
LocateColumns(c) ==
  /\ pc[c] = "locate"
  /\ MayRun(c)
  /\ LET idx == findHeaderRowIndex(aoa[c])
         headerRow == headerRowOf(aoa[c], idx)
         fc == pickColumnIndex(headerRow, featureCandidates)
         fic == pickColumnIndex(headerRow, featureIndexCandidates)
     IN /\ headerRowIndex' = [headerRowIndex EXCEPT ![c] = idx]
        /\ featureCol' = [featureCol EXCEPT ![c] = fc]
        /\ featureIndexCol' = [featureIndexCol EXCEPT ![c] = fic]
        /\ IF noKeyColumn(fc, fic)
           THEN Throw(c, MissingKeyColumn)
           ELSE pc' = [pc EXCEPT ![c] = "prepare"] /\ UNCHANGED error
  /\ UNCHANGED <<session, page, status, net>>
  /\ UNCHANGED <<params, wb, sheetName, aoa, byFeatureName, byFeatureIndex,
                 baseLen, r, hit, downloads>>

\* new Map() (698, 699)
newNameMap(c) == emptyMap
newIndexMap(c) == emptyMap

\* [...headerRow, ...appendedHeaders] (723)
extendHeader(headerRow) == headerRow \o appendedHeaders

\* 697-723: build the lookups and append the new headers.
Prepare(c) ==
  /\ pc[c] = "prepare"
  /\ MayRun(c)
  /\ LET headerRow == headerRowOf(aoa[c], headerRowIndex[c])
     IN /\ byFeatureIndex' = [byFeatureIndex EXCEPT ![c] =
                                buildByFeatureIndex(params[c].rows, 1, newIndexMap(c))]
        /\ byFeatureName' = [byFeatureName EXCEPT ![c] =
                               buildByFeatureName(params[c].rows, 1, newNameMap(c))]
        /\ baseLen' = [baseLen EXCEPT ![c] = Len(headerRow)]
        /\ aoa' = [aoa EXCEPT ![c] =
                     [@ EXCEPT ![headerRowIndex[c] + 1] = extendHeader(headerRow)]]
        /\ r' = [r EXCEPT ![c] = headerRowIndex[c] + 1]
        /\ pc' = [pc EXCEPT ![c] = "fill"]
  /\ UNCHANGED <<session, page, status, net>>
  /\ UNCHANGED <<params, error, wb, sheetName, headerRowIndex, featureCol,
                 featureIndexCol, hit, downloads>>

\* 732-735: the lookup by index.
hitByIndex(row, fic, byIndex) ==
  IF fic >= 0
  THEN LET v == Number(At(row, fic))
       IN IF v.finite THEN mapGet(byIndex, v.n) ELSE 0
  ELSE 0

\* 737-739: the lookup by name, tried when the index gave nothing.
hitByName(row, fc, byName) ==
  IF fc >= 0 THEN mapGet(byName, norm(At(row, fc))) ELSE 0

\* r - (headerRowIndex + 1) (746)
dataRowOrdinal(rr, idx) == rr - (idx + 1)

\* 742-748: the record at the row's ordinal in the sorted list.
hitByPosition(rows, ordinal) ==
  LET sorted == sortByFeatureIndex(rows, Len(rows))
  IN IF ordinal < Len(sorted) THEN At(sorted, ordinal) ELSE 0

\* The chain with the name tried before the index.
resolveNameFirst(row, rows, fc, fic, byName, byIndex, ordinal) ==
  LET h1 == hitByName(row, fc, byName)
      h2 == IF h1 = 0 THEN hitByIndex(row, fic, byIndex) ELSE h1
  IN IF h2 = 0 THEN hitByPosition(rows, ordinal) ELSE h2

\* The chain with the position tried before the name.
resolvePositionFirst(row, rows, fc, fic, byName, byIndex, ordinal) ==
  LET h1 == hitByIndex(row, fic, byIndex)
      h2 == IF h1 = 0 THEN hitByPosition(rows, ordinal) ELSE h1
  IN IF h2 = 0 THEN hitByName(row, fc, byName) ELSE h2

\* 730-748: the fallback chain.
resolve(row, rows, fc, fic, byName, byIndex, ordinal) ==
  LET h1 == hitByIndex(row, fic, byIndex)
      h2 == IF h1 = 0 THEN hitByName(row, fc, byName) ELSE h1
  IN IF h2 = 0 THEN hitByPosition(rows, ordinal) ELSE h2

\* A fill that falls back on the first record of the list when none was found.
fillRowDefault(row, rows, h, base) ==
  writeCells(padRow(row, base + Len(appendedHeaders)), base,
             hitCells(rows[IF h # 0 THEN h ELSE 1]))

\* 750-764: pad the row, then write the record's values from column base.
fillRow(row, rows, h, base) ==
  LET padded == padRow(row, base + Len(appendedHeaders))
  IN IF h # 0 THEN writeCells(padded, base, hitCells(rows[h])) ELSE padded

\* A fill loop whose positional step leaves out the records already given to
\* the rows above.
FillRowExclusive(c) ==
  /\ pc[c] = "fill"
  /\ MayRun(c)
  /\ r[c] < Len(aoa[c])
  /\ LET row == At(aoa[c], r[c])
         keyed == IF hitByIndex(row, featureIndexCol[c], byFeatureIndex[c]) # 0
                  THEN hitByIndex(row, featureIndexCol[c], byFeatureIndex[c])
                  ELSE hitByName(row, featureCol[c], byFeatureName[c])
         placed == hitByPosition(params[c].rows,
                                 dataRowOrdinal(r[c], headerRowIndex[c]))
         h == IF keyed # 0 THEN keyed
              ELSE IF \E k \in DOMAIN hit[c] : hit[c][k] = placed THEN 0
              ELSE placed
     IN IF isRowEmpty(row)
        THEN UNCHANGED <<aoa, hit>>
        ELSE /\ aoa' = [aoa EXCEPT ![c] =
                          [@ EXCEPT ![r[c] + 1] =
                             fillRow(row, params[c].rows, h, baseLen[c])]]
             /\ hit' = [hit EXCEPT ![c] = mapSet(@, r[c], h)]
  /\ r' = [r EXCEPT ![c] = @ + 1]
  /\ UNCHANGED <<session, page, status, net>>
  /\ UNCHANGED <<params, pc, error, wb, sheetName, headerRowIndex, featureCol,
                 featureIndexCol, byFeatureName, byFeatureIndex, baseLen,
                 downloads>>

\* 726-767: one iteration of the fill loop.
FillRow(c) ==
  /\ pc[c] = "fill"
  /\ MayRun(c)
  /\ r[c] < Len(aoa[c])
  /\ LET row == At(aoa[c], r[c])
         h == resolve(row, params[c].rows, featureCol[c], featureIndexCol[c],
                      byFeatureName[c], byFeatureIndex[c],
                      dataRowOrdinal(r[c], headerRowIndex[c]))
     IN IF isRowEmpty(row)
        THEN UNCHANGED <<aoa, hit>>
        ELSE /\ aoa' = [aoa EXCEPT ![c] =
                          [@ EXCEPT ![r[c] + 1] =
                             fillRow(row, params[c].rows, h, baseLen[c])]]
             /\ hit' = [hit EXCEPT ![c] = mapSet(@, r[c], h)]
  /\ r' = [r EXCEPT ![c] = @ + 1]
  /\ UNCHANGED <<session, page, status, net>>
  /\ UNCHANGED <<params, pc, error, wb, sheetName, headerRowIndex, featureCol,
                 featureIndexCol, byFeatureName, byFeatureIndex, baseLen,
                 downloads>>

\* XLSX.write(wb, {bookType: "xlsx", type: "array"}) (774)
write(book) == [bookType |-> "xlsx", book |-> book]

\* 769-775: put the grid back, serialize, hand over to the download.
Emit(c) ==
  /\ pc[c] = "fill"
  /\ MayRun(c)
  /\ r[c] >= Len(aoa[c])
  /\ LET book == writeAoa(wb[c], sheetName[c][1], aoa[c])
     IN /\ wb' = [wb EXCEPT ![c] = book]
        /\ downloads' = Append(downloads,
             [call |-> c,
              filename |-> outName(params[c].originalFile[1].name,
                                   params[c].outputFileName),
              array |-> write(book)])
  /\ pc' = [pc EXCEPT ![c] = "done"]
  /\ UNCHANGED <<session, page, status, net>>
  /\ UNCHANGED <<params, error, sheetName, aoa, headerRowIndex, featureCol,
                 featureIndexCol, byFeatureName, byFeatureIndex, baseLen, r, hit>>

Step(c) ==
  \/ Invoke(c)
  \/ ReadSheet(c)
  \/ LocateColumns(c)
  \/ Prepare(c)
  \/ FillRow(c)
  \/ Emit(c)

Next == Step(1)

Spec == Init /\ [][Next]_vars

\* Three calls that overlap at their await: calls 1 and 2 are given the same
\* argument, call 3 any argument.
SmallSheets ==
  { ScenarioSheet,
    << <<NoCell, NoCell, NoCell>>,
       <<T(<<"S","r"," ","N","o">>), T(<<"F","e","a","t","u","r","e">>), T(<<"N","o","t","e","s">>)>>,
       <<Num(1), T(<<"L","O","G","O","U","T"," ">>), NoCell>>,
       <<T(<<"x">>), T(<<"O","t","h","e","r">>), T(<<"-">>)>> >>,
    << <<T(<<"I","d">>), T(<<"I","t","e","m">>), T(<<"N","o","t","e","s">>)>>,
       <<Num(1), T(<<"L","o","g","i","n">>), T(<<"-">>)>> >> }

SmallParams ==
  { [originalFile |-> <<File(nm, Workbook(1, 0, ws))>>,
     rows |-> recs, outputFileName |-> <<>>] :
      nm \in FileNames, ws \in SmallSheets,
      recs \in {<<RecLogout, RecLogin>>, <<RecLogin, RecTwin>>, <<RecFirst>>} }
  \cup {IdleParams}

Init2 ==
  /\ \E p, q \in SmallParams : params = [c \in Calls |-> IF c = 3 THEN q ELSE p]
  /\ InitLocals
  /\ InitApp(<<>>)

Next2 == \E c \in Calls : Step(c)

Spec2 == Init2 /\ [][Next2]_vars

\* ------------------------------------------------- the application's steps

engineVars ==
  <<params, pc, error, wb, sheetName, aoa, headerRowIndex, featureCol,
    featureIndexCol, byFeatureName, byFeatureIndex, baseLen, r, hit, downloads>>

\* The caller of a settled request goes on from its await in the same step.
Resume(caller, out) ==
  CASE caller.kind = "startPolling" ->
         /\ status' = startPollingResumes(status, caller, out)
         /\ UNCHANGED <<session, page>>
    [] caller.kind = "poll" ->
         /\ status' = pollResumes(status, caller, out)
         /\ UNCHANGED <<session, page>>
    [] caller.kind = "load" ->
         /\ page' = loadResumes(page, out)
         /\ UNCHANGED <<session, status>>
    [] caller.kind = "regenerate" ->
         /\ page' = regenerateResumes(page, caller, out)
         /\ UNCHANGED <<session, status>>

\* 61-68: fetch() gave a response. An ok response is returned as the promise
\* of its body and the finally clears the timer (80, 96); otherwise the body
\* is awaited with the timer running (71).
FetchResolves(q) ==
  /\ net.req[q].pc = "fetch"
  /\ \E res \in Responses(net.req[q].caller.kind) :
       net' = [net EXCEPT
                 !.offline = FALSE,
                 !.req[q] = [@ EXCEPT !.pc = IF ok(res) THEN "json" ELSE "body",
                                      !.timer = IF ok(res) THEN FALSE ELSE @,
                                      !.res = res]]
  /\ UNCHANGED <<session, page, status>>
  /\ UNCHANGED engineVars

\* The body promise returned at 80 settles, outside the try.
JsonRead(q) ==
  /\ net.req[q].pc = "json"
  /\ LET out == IF net.req[q].res.malformed
                THEN Thrown("SyntaxError", 0, "Unexpected token")
                ELSE Returned(net.req[q].res.body)
     IN /\ net' = settle(net, q, "json", net.offline, out)
        /\ Resume(net.req[q].caller, out)
  /\ UNCHANGED engineVars

\* 71-76: the body of a response that is not ok was read, ApiError is thrown.
BodyRead(q) ==
  /\ net.req[q].pc = "body"
  /\ LET err == Thrown("ApiError", net.req[q].res.status,
                       apiErrorMessage(net.req[q].res, TRUE))
         c == catchBlock(err, net.offline)
     IN /\ net' = settle(net, q, "body", c.offline, c.outcome)
        /\ Resume(net.req[q].caller, c.outcome)
  /\ UNCHANGED engineVars

\* 58: the timeout timer fires and aborts. At the await of fetch() the
\* AbortError goes to the catch block; at the await of readBodySafe the read
\* fails, readBodySafe gives undefined and ApiError is thrown (34-48, 71-76).
TimeoutFires(q) ==
  /\ net.req[q].timer
  /\ LET err == IF net.req[q].pc = "fetch"
                THEN Thrown("AbortError", 0, "The operation was aborted.")
                ELSE Thrown("ApiError", net.req[q].res.status,
                            apiErrorMessage(net.req[q].res, FALSE))
         c == catchBlock(err, net.offline)
     IN /\ net' = settle(net, q, "aborted", c.offline, c.outcome)
        /\ Resume(net.req[q].caller, c.outcome)
  /\ UNCHANGED engineVars

\* fetch() rejects with a TypeError: no response came.
FetchRejects(q) ==
  /\ net.req[q].pc = "fetch"
  /\ LET c == catchBlock(Thrown("TypeError", 0, "Failed to fetch"), net.offline)
     IN /\ net' = settle(net, q, "rejected", c.offline, c.outcome)
        /\ Resume(net.req[q].caller, c.outcome)
  /\ UNCHANGED engineVars

NetStep(q) ==
  \/ FetchResolves(q)
  \/ JsonRead(q)
  \/ BodyRead(q)
  \/ TimeoutFires(q)
  \/ FetchRejects(q)

\* ---- StatusPage

\* The session id field (part_002 482); disabled while polling or loading.
SetSessionIdInput(v) ==
  /\ status.mounted /\ ~status.polling /\ ~status.loading
  /\ v # status.sessionId
  /\ status' = [status EXCEPT !.sessionId = v]
  /\ UNCHANGED <<session, page, net>>
  /\ UNCHANGED engineVars

\* startPolling up to its await (409-421); its button is disabled while
\* loading or polling (483).
StartPolling ==
  /\ status.mounted /\ ~status.polling /\ ~status.loading
  /\ LET id == trim(status.sessionId)
     IN IF id = <<>>
        THEN /\ status' = [status EXCEPT !.error = "sessionId is required."]
             /\ UNCHANGED <<session, net>>
        ELSE /\ HasIdleReq
             /\ session' = setActiveSessionId(session, id)
             /\ status' = [clearTimer(status) EXCEPT
                             !.error = "", !.loading = TRUE, !.polling = TRUE,
                             !.backoffMs = BASE_POLL_MS]
             /\ net' = apiFetch(net, [NoCaller EXCEPT !.kind = "startPolling",
                                                      !.id = id,
                                                      !.seen = status.backoffMs],
                                DEFAULT_TIMEOUT_MS)
  /\ UNCHANGED page
  /\ UNCHANGED engineVars

\* 371-377: a poll timer fires; pollOnceAndReschedule runs up to its await.
\* It catches whatever it throws, so the callback's own catch never runs.
PollTimerFires(t) ==
  /\ t \in status.pending
  /\ HasIdleReq
  /\ status' = [status EXCEPT !.pending = @ \ {t}]
  /\ net' = apiFetch(net, [NoCaller EXCEPT !.kind = "poll", !.id = t.sid,
                                           !.seen = t.seen],
                     DEFAULT_TIMEOUT_MS)
  /\ UNCHANGED <<session, page>>
  /\ UNCHANGED engineVars

\* 433-437: the page is left.
Unmount ==
  /\ status.mounted
  /\ status' = [clearTimer(status) EXCEPT !.mounted = FALSE]
  /\ UNCHANGED <<session, page, net>>
  /\ UNCHANGED engineVars

\* ---- ResultsPage

isRegenerating(pg, featureIndex) ==
  featureIndex \in DOMAIN pg.regenerating /\ pg.regenerating[featureIndex]

\* load up to its await (98-107); its button is disabled while loading (362).
Load ==
  /\ ~page.loading
  /\ LET id == trim(session.activeSessionId)
     IN IF id = <<>>
        THEN /\ page' = [page EXCEPT !.error = NoActiveSession]
             /\ UNCHANGED net
        ELSE /\ HasIdleReq /\ page.fetches < MaxFetches
             /\ page' = [page EXCEPT !.error = "", !.loading = TRUE,
                                     !.fetches = @ + 1]
             /\ net' = apiFetch(net, [NoCaller EXCEPT !.kind = "load", !.id = id],
                                DEFAULT_TIMEOUT_MS)
  /\ UNCHANGED <<session, status>>
  /\ UNCHANGED engineVars

\* regenerate(row) up to its await (150-161) for the row at position i of the
\* table; its button is disabled while regenerating[row.featureIndex] (460).
Regenerate(i) ==
  /\ page.draft # <<>>
  /\ i \in 1..Len(page.draft[1])
  /\ ~isRegenerating(page, page.draft[1][i].featureIndex)
  /\ LET row == page.draft[1][i]
         id == trim(session.activeSessionId)
     IN IF id = <<>>
        THEN /\ page' = [page EXCEPT !.error = NoActiveSession]
             /\ UNCHANGED net
        ELSE /\ HasIdleReq /\ page.fetches < MaxFetches
             /\ page' = [page EXCEPT
                           !.error = "",
                           !.regenerating = mapSet(@, row.featureIndex, TRUE),
                           !.fetches = @ + 1]
             /\ net' = apiFetch(net, [NoCaller EXCEPT
                                        !.kind = "regenerate", !.id = id,
                                        !.row = <<row>>,
                                        !.featureIndex = row.featureIndex],
                                DEFAULT_TIMEOUT_MS)
  /\ UNCHANGED <<session, status>>
  /\ UNCHANGED engineVars

\* reset (222-224); its button is disabled without original or while loading
\* (365).
Reset ==
  /\ page.original # <<>> /\ ~page.loading
  /\ page' = [page EXCEPT !.draft = page.original]
  /\ UNCHANGED <<session, status, net>>
  /\ UNCHANGED engineVars

\* updateRange (226-236) for a row of the table.
UpdateRange(i, dept, key, value) ==
  /\ page.draft # <<>>
  /\ i \in 1..Len(page.draft[1])
  /\ page.edits < MaxEdits
  /\ page' = [page EXCEPT
                !.draft = <<[@[1] EXCEPT ![i] = updateRangeRow(@, dept, key, value)]>>,
                !.edits = @ + 1]
  /\ UNCHANGED <<session, status, net>>
  /\ UNCHANGED engineVars

\* updateField (238-245) for a row of the table.
UpdateField(i, key, value) ==
  /\ page.draft # <<>>
  /\ i \in 1..Len(page.draft[1])
  /\ page.edits < MaxEdits
  /\ page' = [page EXCEPT
                !.draft = <<[@[1] EXCEPT ![i] = updateFieldRow(@, key, value)]>>,
                !.edits = @ + 1]
  /\ UNCHANGED <<session, status, net>>
  /\ UNCHANGED engineVars

\* handleUpload for a chosen Excel file, taken together with the answer to
\* its request (part_002 97-128): what it does to the session. The upload
\* page's own loading, error and response are left out.
HandleUpload(file, res) ==
  /\ session' = IF ok(res) /\ ~res.malformed
                THEN handleUploadResumes(session, <<file>>, res.body.sessionId)
                ELSE session
  /\ session' # session
  /\ UNCHANGED <<page, status, net>>
  /\ UNCHANGED engineVars

\* setActiveSessionId as StatusPage calls it with a typed id (part_002 416).
SetActiveSessionId(id) ==
  /\ trim(id) # <<>>
  /\ trim(id) # session.activeSessionId
  /\ session' = setActiveSessionId(session, id)
  /\ UNCHANGED <<page, status, net>>
  /\ UNCHANGED engineVars

ExportCalls == 1..MaxExports

\* exportAnnotatedOriginalExcel up to its await (326-346): the checks, then
\* the engine's own argument checks (659-664) as the next call. The handler
\* keeps its checks whatever its button shows, and is taken in every state.
ExportAnnotatedOriginalExcel ==
  /\ page.exported < MaxExports
  /\ \A d \in Calls : Suspended(d)
  /\ IF exportError(page, session) # ""
     THEN /\ page' = [page EXCEPT !.error = exportError(page, session),
                                  !.exported = @ + 1]
          /\ UNCHANGED <<params, pc, error>>
     ELSE LET c == page.exported + 1
              p == [originalFile |-> session.uploadedExcelFile,
                    rows |-> page.draft[1], outputFileName |-> <<>>]
          IN /\ page' = [page EXCEPT !.error = "", !.exporting = @ \cup {c},
                                     !.exported = @ + 1]
             /\ params' = [params EXCEPT ![c] = p]
             /\ IF argumentError(p) # "" THEN Throw(c, argumentError(p))
                ELSE pc' = [pc EXCEPT ![c] = "await"] /\ UNCHANGED error
  /\ UNCHANGED <<session, status, net>>
  /\ UNCHANGED <<wb, sheetName, aoa, headerRowIndex, featureCol, featureIndexCol,
                 byFeatureName, byFeatureIndex, baseLen, r, hit, downloads>>

\* 347-349: the engine call has settled; what it threw is shown.
ExportResumes(c) ==
  /\ c \in page.exporting
  /\ pc[c] \in {"done", "failed"}
  /\ page' = [page EXCEPT
                !.exporting = @ \ {c},
                !.error = IF pc[c] = "failed"
                          THEN IF error[c] # "" THEN error[c]
                               ELSE "Failed to export annotated Excel"
                          ELSE @]
  /\ UNCHANGED <<session, status, net>>
  /\ UNCHANGED engineVars

\* ---- the specifications

\* No engine call is made yet; the pages start with what localStorage holds.
InitPages ==
  /\ params = [c \in Calls |-> IdleParams]
  /\ InitLocals
  /\ \E saved \in SavedSessionIds : InitApp(saved)

\* StatusPage with the requests it makes.

NextPoll ==
  \/ \E v \in SessionIdInputs : SetSessionIdInput(v)
  \/ StartPolling
  \/ \E t \in status.pending : PollTimerFires(t)
  \/ Unmount
  \/ \E q \in Reqs : NetStep(q)

SpecPoll == InitPages /\ [][NextPoll]_vars

\* ResultsPage: its lists, with the requests it makes.
\* The rows of the table: the positions of the draft list.
TableRows == IF page.draft = <<>> THEN {} ELSE 1..Len(page.draft[1])

NextEdit ==
  \/ Load
  \/ \E i \in TableRows : Regenerate(i)
  \/ Reset
  \/ \E i \in TableRows, dept \in EditedDepartments, key \in EditedKeys,
        value \in EditedHours : UpdateRange(i, dept, key, value)
  \/ \E i \in TableRows, key \in EditedFields, value \in EditedText :
        UpdateField(i, key, value)
  \/ \E q \in Reqs : NetStep(q)

SpecEdit == InitPages /\ [][NextEdit]_vars

\* ResultsPage: the export of the uploaded file, with the upload and the
\* session changes before it.
\* The lists of ResultsPage after a load.
LoadedLists ==
  {<<>>} \cup {<<mapped(res.body.result)>> : res \in {x \in LoadResponses : ok(x)}}

InitExport ==
  /\ params = [c \in Calls |-> IdleParams]
  /\ InitLocals
  /\ \E saved \in SavedSessionIds, list \in LoadedLists :
       /\ session = [NoSession EXCEPT !.activeSessionId = saved]
       /\ page = [NewPage EXCEPT !.original = list, !.draft = list]
       /\ status = NewStatus(saved)
       /\ net = NewNet

NextExport ==
  \/ \E file \in UploadFiles, res \in UploadResponses : HandleUpload(file, res)
  \/ \E id \in SessionIdInputs : SetActiveSessionId(id)
  \/ ExportAnnotatedOriginalExcel
  \/ \E c \in ExportCalls :
       \/ ReadSheet(c)
       \/ LocateColumns(c)
       \/ Prepare(c)
       \/ FillRow(c)
       \/ Emit(c)
  \/ \E c \in ExportCalls : ExportResumes(c)

SpecExport == InitExport /\ [][NextExport]_vars

\* ------------------------------------------------------------------ the claims
\* What the claims speak about, read off the state.

InputBook(c) == params[c].originalFile[1].content
InputSheet(c) == InputBook(c).Sheets[sheetName[c][1]]
InputGrid(c) == getAoa(InputBook(c), sheetName[c][1])
Records(c) == params[c].rows
Emitted(c) == {k \in 1..Len(downloads) : downloads[k].call = c}
OutputBook(c) == downloads[CHOOSE k \in Emitted(c) : TRUE].array.book
OutputSheet(c) == OutputBook(c).Sheets[sheetName[c][1]]
NewWidth(c) == baseLen[c] + Len(appendedHeaders)

\* The cells appended to row rr (0-based) of the output sheet.
AppendedCells(c, rr) == SubSeq(At(OutputSheet(c), rr), baseLen[c] + 1, NewWidth(c))

\* The rows the fill loop annotated: the non-empty rows below the header row.
DataRowsOf(c) == DOMAIN hit[c]

\* The cell holds the number k: a number, or text that reads as one.
CellIsNumber(cell, k) ==
  norm(cell) # <<>> /\ Number(cell).finite /\ Number(cell).n = k

Max(S) == CHOOSE x \in S : \A y \in S : y <= x
Min(S) == CHOOSE x \in S : \A y \in S : x <= y

\* C1 (as claimed): on success every cell of the selected input sheet has the
\* same value at the same (row, column) position in the output sheet.
C1_Additivity ==
  \A c \in Calls : pc[c] = "done" =>
    \A i \in 1..Len(InputSheet(c)) : \A j \in 1..Len(InputSheet(c)[i]) :
      InputSheet(c)[i][j].t # "z" =>
        /\ i <= Len(OutputSheet(c))
        /\ j <= Len(OutputSheet(c)[i])
        /\ OutputSheet(c)[i][j] = InputSheet(c)[i][j]

\* The case of C2: row rr holds record a's featureIndex in the index column
\* and record b's normalized featureName in the name column, a other than b.
IndexVersusName(c, rr, a, b) ==
  /\ featureIndexCol[c] >= 0
  /\ featureCol[c] >= 0
  /\ Records(c)[a] # Records(c)[b]
  /\ CellIsNumber(At(At(InputGrid(c), rr), featureIndexCol[c]), Records(c)[a].featureIndex)
  /\ norm(At(At(InputGrid(c), rr), featureCol[c])) = norm(Str(Records(c)[b].featureName))

\* C2 (as claimed): such a row is annotated with record a's values.
C2_KeyPrecedence_Original ==
  \A c \in Calls : pc[c] = "done" =>
    \A rr \in DataRowsOf(c) : \A a, b \in 1..Len(Records(c)) :
      IndexVersusName(c, rr, a, b) =>
        /\ hit[c][rr] # 0
        /\ Records(c)[hit[c][rr]] = Records(c)[a]

\* C2 (amended): such a row is annotated with the last record of the list
\* whose featureIndex is the one in the row's index cell (record a itself
\* when no later record shares a's featureIndex), whatever its name cell
\* matches.
C2_KeyPrecedence ==
  \A c \in Calls : pc[c] = "done" =>
    \A rr \in DataRowsOf(c) : \A a, b \in 1..Len(Records(c)) :
      IndexVersusName(c, rr, a, b) =>
        LET same == {x \in 1..Len(Records(c)) :
                       Records(c)[x].featureIndex = Records(c)[a].featureIndex}
        IN /\ hit[c][rr] = Max(same)
           /\ AppendedCells(c, rr) = hitCells(Records(c)[Max(same)])

\* C2 witness: a finished call with a row whose index cell names one record
\* and whose name cell names a record of another featureIndex.
C2_Witness ==
  \E c \in Calls : pc[c] = "done" /\
    \E rr \in DataRowsOf(c) : \E a, b \in 1..Len(Records(c)) :
      /\ IndexVersusName(c, rr, a, b)
      /\ Records(c)[a].featureIndex # Records(c)[b].featureIndex
      /\ hit[c][rr] = a
      /\ hitCells(Records(c)[a]) # hitCells(Records(c)[b])

Finished(c) == pc[c] \in {"done", "failed"}

SameInput(c, d) ==
  /\ Records(c) = Records(d)
  /\ Len(params[c].originalFile) = Len(params[d].originalFile)
  /\ params[c].originalFile # <<>> => InputBook(c) = InputBook(d)

HasKey(row, candidates) ==
  \E i \in 1..Len(row) :
    LET text == norm(row[i])
    IN \E k \in 1..Len(candidates) : reMatch(candidates[k], text)

\* The header row of a grid as read: its first row that is not empty.
HeaderOf(grid) == headerRowOf(grid, findHeaderRowIndex(grid))

\* No cell of the row matches a feature-name or a feature-index pattern.
Keyless(row) ==
  /\ ~HasKey(row, featureCandidates)
  /\ ~HasKey(row, featureIndexCandidates)

\* The call got as far as looking for the key columns.
ReachedColumns(c) ==
  /\ pc[c] \notin {"idle", "await", "locate"}
  /\ sheetName[c] # <<>>
  /\ Len(InputGrid(c)) > 0

\* C4: when no cell of the header row matches a feature-name pattern and none
\* matches a feature-index pattern, the call fails with MissingKeyColumn, the
\* parsed workbook and the grid are still as read, and nothing is emitted.
C4_MissingKey ==
  \A c \in Calls :
    pc[c] \notin {"idle", "await", "locate"} /\ sheetName[c] # <<>> =>
      LET grid == InputGrid(c)
      IN Len(grid) > 0 /\ Keyless(HeaderOf(grid))
         => /\ pc[c] = "failed"
            /\ error[c] = MissingKeyColumn
            /\ wb[c] = InputBook(c)
            /\ aoa[c] = grid
            /\ Emitted(c) = {}

\* C4 witness: a call failed so on a sheet with a header row and a data row.
C4_Witness ==
  \E c \in Calls :
    /\ error[c] = MissingKeyColumn
    /\ ReachedColumns(c)
    /\ Keyless(HeaderOf(InputGrid(c)))
    /\ Len(InputGrid(c)) >= 2

\* The call got past its argument checks and parsed the workbook.
Parsed(c) ==
  /\ pc[c] \notin {"idle", "await"}
  /\ error[c] \notin {MissingFile, NoEstimatesProvided}

\* C5: with n sheets the call selects the second sheet when n >= 2 and the
\* first when n = 1, and on success that sheet is the one that changed, all
\* others being as in the input; with n = 0 it fails with NoSheetsFound and
\* emits nothing.
C5_SheetSelection ==
  \A c \in Calls : Parsed(c) =>
    LET names == params[c].originalFile[1].content.SheetNames
        n == Len(names)
        expected == IF n >= 2 THEN names[2] ELSE names[1]
    IN /\ n = 0 => pc[c] = "failed" /\ error[c] = NoSheetsFound /\ Emitted(c) = {}
       /\ n >= 1 => sheetName[c] = <<expected>>
       /\ n >= 1 /\ pc[c] = "done" =>
            /\ OutputBook(c).Sheets[expected] # InputBook(c).Sheets[expected]
            /\ \A i \in 1..n : names[i] # expected =>
                 OutputBook(c).Sheets[names[i]] = InputBook(c).Sheets[names[i]]

\* C5 witness: a call succeeded on a workbook of two different sheets.
C5_Witness ==
  \E c \in Calls :
    /\ pc[c] = "done"
    /\ Len(InputBook(c).SheetNames) >= 2
    /\ InputBook(c).Sheets[InputBook(c).SheetNames[1]]
         # InputBook(c).Sheets[InputBook(c).SheetNames[2]]

\* A sheet row without content: every cell missing or blank after norm.
Blank(row) == \A i \in 1..Len(row) : row[i].t = "z" \/ norm(row[i]) = <<>>

\* The position (1-based) of the first row with content, 0 if there is none.
FirstContent(sheet) ==
  IF \A i \in 1..Len(sheet) : Blank(sheet[i]) THEN 0
  ELSE Min({i \in 1..Len(sheet) : ~Blank(sheet[i])})

\* C6 (as claimed): when the first two rows of the selected sheet are blank
\* and the third holds the headers, the header row is found at index 2, the
\* appended headers are written on the third row of the output sheet and
\* every cell below keeps its position.
C6_HeaderSkip ==
  \A c \in Calls :
    /\ ReachedColumns(c)
    /\ Len(InputSheet(c)) >= 3
    /\ Blank(InputSheet(c)[1]) /\ Blank(InputSheet(c)[2])
    /\ ~Blank(InputSheet(c)[3])
    => /\ headerRowIndex[c] = 2
       /\ pc[c] = "done" =>
            /\ OutputSheet(c)[3] = jsonRow(InputSheet(c)[3]) \o appendedHeaders
            /\ \A i \in 4..Len(InputSheet(c)) : \A j \in 1..Len(InputSheet(c)[i]) :
                 InputSheet(c)[i][j].t # "z" =>
                   /\ i <= Len(OutputSheet(c))
                   /\ OutputSheet(c)[i][j] = InputSheet(c)[i][j]

\* The fixed list of C7, written out.
ExpectedHeaders ==
  << Str(<<"A","I"," ","F","r","o","n","t","e","n","d"," ","M","i","n">>),
     Str(<<"A","I"," ","F","r","o","n","t","e","n","d"," ","M","o","s","t","L","i","k","e","l","y">>),
     Str(<<"A","I"," ","F","r","o","n","t","e","n","d"," ","M","a","x">>),
     Str(<<"A","I"," ","B","a","c","k","e","n","d"," ","M","i","n">>),
     Str(<<"A","I"," ","B","a","c","k","e","n","d"," ","M","o","s","t","L","i","k","e","l","y">>),
     Str(<<"A","I"," ","B","a","c","k","e","n","d"," ","M","a","x">>),
     Str(<<"A","I"," ","M","o","b","i","l","e"," ","M","i","n">>),
     Str(<<"A","I"," ","M","o","b","i","l","e"," ","M","o","s","t","L","i","k","e","l","y">>),
     Str(<<"A","I"," ","M","o","b","i","l","e"," ","M","a","x">>),
     Str(<<"A","I"," ","H","T","M","L","/","C","S","S"," ","M","i","n">>),
     Str(<<"A","I"," ","H","T","M","L","/","C","S","S"," ","M","o","s","t","L","i","k","e","l","y">>),
     Str(<<"A","I"," ","H","T","M","L","/","C","S","S"," ","M","a","x">>),
     Str(<<"A","I"," ","A","I","/","M","L"," ","M","i","n">>),
     Str(<<"A","I"," ","A","I","/","M","L"," ","M","o","s","t","L","i","k","e","l","y">>),
     Str(<<"A","I"," ","A","I","/","M","L"," ","M","a","x">>),
     Str(<<"A","I"," ","C","o","n","f","i","d","e","n","c","e">>),
     Str(<<"A","I"," ","C","o","m","p","l","e","x","i","t","y">>),
     Str(<<"A","I"," ","T","e","c","h"," ","R","e","m","a","r","k","s">>),
     Str(<<"A","I"," ","U","s","e","r"," ","R","e","m","a","r","k">>) >>

ExpectedDepartments == <<"frontend", "backend", "mobile", "htmlCss", "aiMl">>

\* The value that belongs under ExpectedHeaders[k].
ExpectedValue(rec, k) ==
  IF k <= 15
  THEN LET range == rec.ranges[ExpectedDepartments[((k - 1) \div 3) + 1]]
       IN CASE (k - 1) % 3 = 0 -> Num(range.min)
            [] (k - 1) % 3 = 1 -> Num(range.mostLikely)
            [] OTHER -> Num(range.max)
  ELSE CASE k = 16 -> Str(rec.confidence)
         [] k = 17 -> Str(rec.complexity)
         [] k = 18 -> Str(rec.techRemarks)
         [] OTHER -> Str(rec.userRemark)

HasValue(rec, k) ==
  k <= 15 => ExpectedDepartments[((k - 1) \div 3) + 1] \in DOMAIN rec.ranges

IsScenario(c) ==
  /\ InputSheet(c) = ScenarioSheet
  /\ Records(c) = <<RecLogout, RecLogin>>

\* C8: on success, in every row annotated with a record, the appended cell
\* under each of the fixed headers holds that record's value for the header;
\* in the scenario row 1 gets 2, 4, 6 and High, row 2 gets 1, 2, 3 and Low.
C8_ValuePlacement ==
  \A c \in Calls : pc[c] = "done" =>
    /\ \A rr \in DataRowsOf(c) : hit[c][rr] # 0 =>
         LET header == At(OutputSheet(c), headerRowIndex[c])
             row == At(OutputSheet(c), rr)
             rec == Records(c)[hit[c][rr]]
         IN \A j \in (baseLen[c] + 1)..Len(header) :
              \A k \in 1..Len(ExpectedHeaders) :
                header[j] = ExpectedHeaders[k] /\ HasValue(rec, k)
                => /\ j <= Len(row)
                   /\ row[j] = ExpectedValue(rec, k)
    /\ IsScenario(c) =>
         /\ SubSeq(OutputSheet(c)[2], 4, 6) = <<Num(2), Num(4), Num(6)>>
         /\ OutputSheet(c)[2][19] = Str(<<"H","i","g","h">>)
         /\ SubSeq(OutputSheet(c)[3], 4, 6) = <<Num(1), Num(2), Num(3)>>
         /\ OutputSheet(c)[3][19] = Str(<<"L","o","w">>)

\* C8 witness: the scenario ran to its end.
C8_Witness ==
  \E c \in Calls : pc[c] = "done" /\ IsScenario(c) /\ DataRowsOf(c) = {1, 2}

\* Row `row` of the grid has no record by index and none by name.
IndexMisses(c, row) ==
  ~ /\ featureIndexCol[c] >= 0
    /\ Number(At(row, featureIndexCol[c])).finite
    /\ \E a \in 1..Len(Records(c)) :
         Records(c)[a].featureIndex = Number(At(row, featureIndexCol[c])).n

NameMatches(c, row) ==
  IF featureCol[c] >= 0 /\ norm(At(row, featureCol[c])) # <<>>
  THEN {a \in 1..Len(Records(c)) :
          norm(Str(Records(c)[a].featureName)) = norm(At(row, featureCol[c]))}
  ELSE {}

\* The record at 0-based position k of the list sorted ascending by
\* featureIndex (equal keys in list order), 0 if the list is shorter.
SortedAt(recs, k) ==
  LET before(a) == {x \in 1..Len(recs) :
                      \/ recs[x].featureIndex < recs[a].featureIndex
                      \/ recs[x].featureIndex = recs[a].featureIndex /\ x < a}
  IN IF k < Len(recs)
     THEN CHOOSE a \in 1..Len(recs) : Cardinality(before(a)) = k
     ELSE 0

\* The data rows of a sheet: the rows with content below its header row.
SheetDataRows(sheet) ==
  {i \in 1..Len(sheet) : i > FirstContent(sheet) /\ ~Blank(sheet[i])}

\* Where sheet row i (1-based) stands in the grid read from the sheet (0-based).
GridIndex(sheet, i) == Cardinality({j \in 1..(i - 1) : ~IsBlankSheetRow(sheet[j])})

\* C9 (as claimed): a data row matched neither by index nor by name gets the
\* record at position k of the sorted list, k being the number of data rows
\* with content above it.
C9_PositionalFallback ==
  \A c \in Calls : pc[c] = "done" =>
    \A i \in SheetDataRows(InputSheet(c)) :
      /\ IndexMisses(c, jsonRow(InputSheet(c)[i]))
      /\ NameMatches(c, jsonRow(InputSheet(c)[i])) = {}
      => /\ GridIndex(InputSheet(c), i) \in DataRowsOf(c)
         /\ hit[c][GridIndex(InputSheet(c), i)]
              = SortedAt(Records(c),
                         Cardinality({j \in SheetDataRows(InputSheet(c)) : j < i}))

\* C10: a row with no record by index whose name cell is the normalized name
\* of several records gets the first of them in list order.
C10_NameTies ==
  \A c \in Calls : pc[c] = "done" =>
    \A rr \in DataRowsOf(c) :
      LET row == At(InputGrid(c), rr)
          named == NameMatches(c, row)
      IN IndexMisses(c, row) /\ named # {}
         => /\ hit[c][rr] = Min(named)
            /\ AppendedCells(c, rr) = hitCells(Records(c)[Min(named)])

\* C10 witness: a row resolved by name where two different records of the
\* list carry the row's normalized name.
C10_Witness ==
  \E c \in Calls : pc[c] = "done" /\
    \E rr \in DataRowsOf(c) :
      /\ IndexMisses(c, At(InputGrid(c), rr))
      /\ \E a, b \in NameMatches(c, At(InputGrid(c), rr)) :
           a < b /\ hitCells(Records(c)[a]) # hitCells(Records(c)[b])
                 /\ hit[c][rr] = a

\* Every cell of the sequence is the empty string.
AllBlank(cells) == \A j \in 1..Len(cells) : cells[j] = Str(<<>>)

\* C11: a data row for which no rule gave a record never aborts the call: once
\* rows are being filled the call has no error and does not fail, and when it
\* is done it has emitted its output, the appended cells of such a row are all
\* blank, and every row a record was found for carries that record's values.
C11_PartialSuccess ==
  \A c \in Calls :
    /\ DataRowsOf(c) # {} => pc[c] \in {"fill", "done"} /\ error[c] = ""
    /\ pc[c] = "done" =>
         \A rr \in DataRowsOf(c) :
           IF hit[c][rr] = 0
           THEN /\ Emitted(c) # {}
                /\ Len(AppendedCells(c, rr)) = Len(ExpectedHeaders)
                /\ AllBlank(AppendedCells(c, rr))
           ELSE AppendedCells(c, rr) = hitCells(Records(c)[hit[c][rr]])

\* C11 witness: a finished call with a row no rule gave a record for, below a
\* row that was annotated.
C11_Witness ==
  \E c \in Calls : pc[c] = "done" /\ Emitted(c) # {} /\
    \E r1, r2 \in DataRowsOf(c) :
      /\ r1 < r2
      /\ hit[c][r1] # 0
      /\ hit[c][r2] = 0
      /\ IndexMisses(c, At(InputGrid(c), r2))
      /\ NameMatches(c, At(InputGrid(c), r2)) = {}
      /\ ~AllBlank(AppendedCells(c, r1))

\* Nothing of the call's file was read or parsed, and nothing was emitted.
Untouched(c) ==
  /\ wb[c] = EmptyWorkbook
  /\ sheetName[c] = <<>>
  /\ aoa[c] = <<>>
  /\ Emitted(c) = {}

\* C12: a started call without an original file has failed with MissingFile,
\* and a started call with a file and an empty record list has failed with
\* NoEstimatesProvided; either failure leaves the file unread and unparsed and
\* emits nothing, and no other call fails with these errors.
C12_InputPreconditions ==
  \A c \in Calls :
    /\ pc[c] # "idle" /\ params[c].originalFile = <<>>
         => pc[c] = "failed" /\ error[c] = MissingFile
    /\ pc[c] # "idle" /\ params[c].originalFile # <<>> /\ Records(c) = <<>>
         => pc[c] = "failed" /\ error[c] = NoEstimatesProvided
    /\ error[c] \in {MissingFile, NoEstimatesProvided}
         => /\ pc[c] = "failed"
            /\ params[c].originalFile = <<>> \/ Records(c) = <<>>
            /\ Untouched(c)

\* C12 witness: a call with a file of two sheets and no records has failed
\* with NoEstimatesProvided, its workbook not parsed.
C12_Witness ==
  \E c \in Calls :
    /\ error[c] = NoEstimatesProvided
    /\ params[c].originalFile # <<>>
    /\ Len(InputBook(c).SheetNames) = 2
    /\ wb[c] # InputBook(c)

\* The call selected a sheet that has no rows.
SelectedEmpty(c) ==
  /\ Parsed(c)
  /\ sheetName[c] # <<>>
  /\ InputSheet(c) = <<>>

\* C13: a call whose selected sheet has zero rows has failed with EmptySheet;
\* the header row and the key columns were never looked for (their variables
\* are as at the start) and nothing was emitted.
C13_EmptySheet ==
  \A c \in Calls : SelectedEmpty(c) =>
    /\ pc[c] = "failed"
    /\ error[c] = EmptySheet
    /\ error[c] # MissingKeyColumn
    /\ headerRowIndex[c] = 0 /\ featureCol[c] = -1 /\ featureIndexCol[c] = -1
    /\ baseLen[c] = 0 /\ DataRowsOf(c) = {}
    /\ Emitted(c) = {}

\* C13 witness: a call failed so on a workbook whose second sheet is the empty
\* one and whose first sheet has rows.
C13_Witness ==
  \E c \in Calls :
    /\ SelectedEmpty(c)
    /\ error[c] = EmptySheet
    /\ Len(InputBook(c).SheetNames) = 2
    /\ sheetName[c] = <<InputBook(c).SheetNames[2]>>
    /\ InputBook(c).Sheets[InputBook(c).SheetNames[1]] # <<>>

\* The name of the call's file, what follows its last dot, and what precedes it.
InputName(c) == params[c].originalFile[1].name
LastDot(name) == Max({i \in 1..Len(name) : name[i] = "."})
ExtensionOf(name) == SubSeq(name, LastDot(name) + 1, Len(name))
BaseNameOf(name) == SubSeq(name, 1, LastDot(name) - 1)
EmittedName(c) == downloads[CHOOSE k \in Emitted(c) : TRUE].filename

\* C14 (as claimed): the emitted name is the explicit output name when one is
\* supplied, and otherwise the file's name without its spreadsheet extension
\* followed by "_with_estimates." and the extension of the input file.
C14_OutputName ==
  \A c \in Calls : pc[c] = "done" =>
    IF params[c].outputFileName # <<>>
    THEN EmittedName(c) = params[c].outputFileName[1]
    ELSE EmittedName(c) =
           BaseNameOf(InputName(c))
             \o <<"_","w","i","t","h","_","e","s","t","i","m","a","t","e","s",".">>
             \o ExtensionOf(InputName(c))

\* The container format an input file of this name is in.
FormatOf(name) ==
  IF toLowerCase(ExtensionOf(name)) = <<"x","l","s">> THEN "xls" ELSE "xlsx"

EmittedFormat(c) == downloads[CHOOSE k \in Emitted(c) : TRUE].array.bookType

\* C15 (as claimed): the output is serialized in the container format of the
\* input file: .xls for an .xls input, .xlsx for an .xlsx input.
C15_ContainerFormat ==
  \A c \in Calls : pc[c] = "done" => EmittedFormat(c) = FormatOf(InputName(c))

\* The names of the sheets of the output that differ from the input's.
ChangedSheets(c) ==
  {nm \in DOMAIN OutputBook(c).Sheets :
     nm \notin DOMAIN InputBook(c).Sheets
     \/ OutputBook(c).Sheets[nm] # InputBook(c).Sheets[nm]}

\* C16: on success the output workbook lists the same sheet names in the same
\* order as the input, has the same set of sheets, and the selected sheet is
\* the one and only sheet whose content differs from the input's.
C16_SingleSheetMutation ==
  \A c \in Calls : pc[c] = "done" =>
    /\ OutputBook(c).SheetNames = InputBook(c).SheetNames
    /\ DOMAIN OutputBook(c).Sheets = DOMAIN InputBook(c).Sheets
    /\ ChangedSheets(c) = {sheetName[c][1]}

\* C16 witness: a call succeeded on a workbook of two sheets, its first sheet
\* still the cover sheet and its second sheet annotated in two rows.
C16_Witness ==
  \E c \in Calls :
    /\ pc[c] = "done"
    /\ Len(OutputBook(c).SheetNames) = 2
    /\ OutputBook(c).Sheets[OutputBook(c).SheetNames[1]] = CoverSheet
    /\ sheetName[c] = <<InputBook(c).SheetNames[2]>>
    /\ Cardinality(DataRowsOf(c)) = 2

\* The cells (1-based) among the normalized texts that match candidate k.
CellsMatching(texts, candidates, k) ==
  {i \in 1..Len(texts) : reMatch(candidates[k], texts[i])}

\* The normalized texts of the cells of a row.
TextsOf(row) == [i \in 1..Len(row) |-> norm(row[i])]

\* The column by pattern priority: the leftmost cell matching the first
\* candidate, in list order, that any cell matches; -1 when none does.
ByPriority(texts, candidates) ==
  LET some == {k \in 1..Len(candidates) : CellsMatching(texts, candidates, k) # {}}
  IN IF some = {} THEN -1
     ELSE Min(CellsMatching(texts, candidates, Min(some))) - 1

\* The call has looked for the key columns.
Located(c) == pc[c] \in {"prepare", "fill", "done"} \/ error[c] = MissingKeyColumn

\* C17: the feature-name column and the feature-index column are each the
\* column given by pattern priority over the header row, whatever the positions
\* of the matching cells; the headers [Name, Feature] give feature column 1.
C17_ColumnPriority ==
  \A c \in Calls : Located(c) =>
    LET header == TextsOf(HeaderOf(InputGrid(c)))
    IN /\ featureCol[c] = ByPriority(header, featureCandidates)
       /\ featureIndexCol[c] = ByPriority(header, featureIndexCandidates)
       /\ InputSheet(c) = NameFeatureSheet => featureCol[c] = 1

\* C17 witness: the feature column was chosen to the right of a cell that
\* matches a later candidate, on the headers [Name, Feature].
C17_Witness ==
  \E c \in Calls :
    /\ Located(c)
    /\ InputSheet(c) = NameFeatureSheet
    /\ featureCol[c] = 1
    /\ \E k \in 1..Len(featureCandidates) :
         1 \in CellsMatching(TextsOf(HeaderOf(InputGrid(c))), featureCandidates, k)

\* The strings C18 lists for the two keys.
ListedNames ==
  { <<"f","e","a","t","u","r","e">>,
    <<"f","e","a","t","u","r","e","s">>,
    <<"f","e","a","t","u","r","e"," ","n","a","m","e">>,
    <<"t","i","t","l","e">>,
    <<"n","a","m","e">> }

ListedIndexes ==
  { <<"f","e","a","t","u","r","e"," ","i","n","d","e","x">>,
    <<"i","n","d","e","x">>,
    <<"s","r"," ","n","o">>,
    <<"s","r"," ","n","o",".">>,
    <<"s"," ","n","o">>,
    <<"s"," ","n","o",".">> }

\* The normalized texts the patterns of 677-689 accept: in place of a single
\* space "feature name" and "feature index" also go without one, and
\* "sr no", "s no" take an optional period after "sr" or "s", an optional
\* space before "no" and an optional period at the end.
AcceptedNames == ListedNames \cup {<<"f","e","a","t","u","r","e","n","a","m","e">>}

AcceptedIndexes ==
  {<<"f","e","a","t","u","r","e"," ","i","n","d","e","x">>, <<"f","e","a","t","u","r","e","i","n","d","e","x">>, <<"i","n","d","e","x">>}
  \cup { a \o b \o c \o <<"n","o">> \o d :
           a \in {<<"s","r">>, <<"s">>}, b \in {<<>>, <<".">>},
           c \in {<<>>, <<" ">>}, d \in {<<>>, <<".">>} }

\* Some of the normalized texts is in the set.
HasCellIn(texts, accepted) == \E i \in 1..Len(texts) : texts[i] \in accepted

\* A key column is found exactly when a header cell's normalized text is in
\* the key's set, and the cell of the found column is such a cell.
KeysAccepted(c, names, indexes) ==
  LET header == TextsOf(HeaderOf(InputGrid(c)))
  IN /\ featureCol[c] >= 0 <=> HasCellIn(header, names)
     /\ featureCol[c] >= 0 => At(header, featureCol[c]) \in names
     /\ featureIndexCol[c] >= 0 <=> HasCellIn(header, indexes)
     /\ featureIndexCol[c] >= 0 => At(header, featureIndexCol[c]) \in indexes

\* C18 (as claimed): a header cell is accepted as a key column only if its
\* normalized text equals one of the listed strings.
C18_WholeCellEquality_Original ==
  \A c \in Calls : Located(c) => KeysAccepted(c, ListedNames, ListedIndexes)

\* C18 (amended): a header cell is accepted as a key column only if its
\* normalized text as a whole equals one of the texts the patterns accept:
\* the listed strings and their variants without the space or with a period
\* after "sr" or "s"; no text that merely contains or starts with one is.
C18_WholeCellEquality ==
  \A c \in Calls : Located(c) => KeysAccepted(c, AcceptedNames, AcceptedIndexes)

\* C18 witness: on the header [srno, FeatureName, Feature List] both key
\* columns were found, on cells outside the listed strings, and the cell
\* "feature list" was not accepted.
C18_Witness ==
  \E c \in Calls :
    /\ Located(c)
    /\ featureIndexCol[c] = 0 /\ featureCol[c] = 1
    /\ norm(At(HeaderOf(InputGrid(c)), 0)) \notin ListedIndexes
    /\ norm(At(HeaderOf(InputGrid(c)), 1)) \notin ListedNames
    /\ norm(At(HeaderOf(InputGrid(c)), 2)) = <<"f","e","a","t","u","r","e"," ","l","i","s","t">>

\* The number the row's index cell parses as names a record: the three
\* conditions of a resolution by index.
IndexHits(c, row) ==
  /\ featureIndexCol[c] >= 0
  /\ Number(At(row, featureIndexCol[c])).finite
  /\ \E a \in 1..Len(Records(c)) :
       Records(c)[a].featureIndex = Number(At(row, featureIndexCol[c])).n

\* C19: a data row gets a record of the featureIndex in its index cell exactly
\* when an index column was found, the cell parses as a number and a record
\* has that featureIndex; otherwise it gets a record of its normalized name
\* when a name column was found and a record has that name; otherwise the
\* record at the row's offset below the header row in the list sorted by
\* featureIndex, or none.
C19_IndexMatchCondition ==
  \A c \in Calls : pc[c] = "done" =>
    \A rr \in DataRowsOf(c) :
      LET row == At(InputGrid(c), rr)
          h == hit[c][rr]
          named == NameMatches(c, row)
      IN IF IndexHits(c, row)
         THEN /\ h # 0
              /\ Records(c)[h].featureIndex = Number(At(row, featureIndexCol[c])).n
         ELSE IF named # {}
              THEN h \in named
              ELSE h = SortedAt(Records(c), rr - (headerRowIndex[c] + 1))

\* C19 witness: under a header with both key columns, one row whose index
\* cell names no record was resolved by its name, and another row whose index
\* cell is no number and whose name is unknown got a record by its position.
C19_Witness ==
  \E c \in Calls : pc[c] = "done" /\ featureIndexCol[c] >= 0 /\ featureCol[c] >= 0 /\
    \E r1, r2 \in DataRowsOf(c) :
      /\ ~IndexHits(c, At(InputGrid(c), r1))
      /\ Number(At(At(InputGrid(c), r1), featureIndexCol[c])).finite
      /\ hit[c][r1] \in NameMatches(c, At(InputGrid(c), r1))
      /\ ~Number(At(At(InputGrid(c), r2), featureIndexCol[c])).finite
      /\ NameMatches(c, At(InputGrid(c), r2)) = {}
      /\ hit[c][r2] # 0

\* The new total column count: the header row's length as read plus the
\* number of appended headers.
TotalColumns(c) == Len(HeaderOf(InputGrid(c))) + Len(ExpectedHeaders)

\* The rows (0-based) of the grid below the header row.
RowsBelowHeader(c) == {rr \in 0..(Len(InputGrid(c)) - 1) : rr > headerRowIndex[c]}

\* C20 (as claimed): on success every row after the header row has the new
\* total column count as its length.
C20_RowPadding_Original ==
  \A c \in Calls : pc[c] = "done" =>
    \A rr \in RowsBelowHeader(c) : Len(At(OutputSheet(c), rr)) = TotalColumns(c)

\* C20 (amended): on success every row after the header row that is not
\* entirely blank has the new total column count as its length, whether or
\* not a record was found for it; a row that is entirely blank after
\* normalization is left as it was read.
C20_RowPadding ==
  \A c \in Calls : pc[c] = "done" =>
    \A rr \in RowsBelowHeader(c) :
      IF Blank(At(InputGrid(c), rr))
      THEN At(OutputSheet(c), rr) = At(InputGrid(c), rr)
      ELSE /\ rr \in DataRowsOf(c)
           /\ Len(At(OutputSheet(c), rr)) = TotalColumns(c)

\* C20 witness: a finished call with a row of content that got no record and
\* was padded, below a row of whitespace that was left at its length.
C20_Witness ==
  \E c \in Calls : pc[c] = "done" /\
    \E r1, r2 \in RowsBelowHeader(c) :
      /\ r1 < r2
      /\ Blank(At(InputGrid(c), r1))
      /\ Len(At(OutputSheet(c), r1)) < TotalColumns(c)
      /\ r2 \in DataRowsOf(c)
      /\ hit[c][r2] = 0
      /\ Len(At(OutputSheet(c), r2)) = TotalColumns(c)

\* The rows (0-based) of the grid with a cell that is not empty after
\* normalization.
RowsWithContent(grid) == {i \in 0..(Len(grid) - 1) : ~Blank(At(grid, i))}

\* C21: once the header row was looked for, headerRowIndex is the least index
\* of a grid row with a cell that is not empty after normalization, and 0 when
\* every row is blank; in that case the call has failed with MissingKeyColumn
\* and emitted nothing.
C21_HeaderLocator ==
  \A c \in Calls : Located(c) =>
    LET content == RowsWithContent(InputGrid(c))
    IN IF content = {}
       THEN /\ headerRowIndex[c] = 0
            /\ pc[c] = "failed"
            /\ error[c] = MissingKeyColumn
            /\ Emitted(c) = {}
       ELSE headerRowIndex[c] = Min(content)

\* C21 witness: the header row was looked for in a grid of two rows of
\* whitespace, and the call failed with MissingKeyColumn.
C21_Witness ==
  \E c \in Calls :
    /\ Located(c)
    /\ Len(InputGrid(c)) = 2
    /\ RowsWithContent(InputGrid(c)) = {}
    /\ error[c] = MissingKeyColumn

\* The cell is text that is empty or whitespace only.
BlankText(cell) == cell.t = "s" /\ norm(cell) = <<>>

\* The records (by position) whose featureIndex is k.
WithIndex(c, k) == {a \in 1..Len(Records(c)) : Records(c)[a].featureIndex = k}

\* C22: on success, a row with content whose cell in the feature-index column
\* is empty or whitespace-only text is annotated with a record of featureIndex
\* 0 whenever the list has one, whatever record its name cell names.
C22_BlankIndexCell ==
  \A c \in Calls : pc[c] = "done" /\ featureIndexCol[c] >= 0 =>
    \A rr \in DataRowsOf(c) :
      LET row == At(InputGrid(c), rr)
      IN BlankText(At(row, featureIndexCol[c])) /\ WithIndex(c, 0) # {}
         => /\ hit[c][rr] \in WithIndex(c, 0)
            /\ AppendedCells(c, rr) = hitCells(Records(c)[hit[c][rr]])

\* C22 witness: a row whose index cell is whitespace and whose name is that of
\* a record of another featureIndex got the record of featureIndex 0.
C22_Witness ==
  \E c \in Calls : pc[c] = "done" /\ featureIndexCol[c] >= 0 /\ featureCol[c] >= 0 /\
    \E rr \in DataRowsOf(c) :
      LET row == At(InputGrid(c), rr)
      IN /\ BlankText(At(row, featureIndexCol[c]))
         /\ At(row, featureIndexCol[c]) # Str(<<>>)
         /\ hit[c][rr] \in WithIndex(c, 0)
         /\ \E b \in NameMatches(c, row) : Records(c)[b].featureIndex # 0

\* The record (by position) has a name that is empty after normalization.
Nameless(c, a) == norm(Str(Records(c)[a].featureName)) = <<>>

\* C23: on success, a row resolved by index gets the last record of the list
\* with that featureIndex; a row not resolved by index whose name is that of
\* several records gets the first of them; and a row not resolved by index
\* whose name cell is blank gets the record at its position, never by name,
\* also when the list holds records with an empty normalized name.
C23_DuplicateKeys ==
  \A c \in Calls : pc[c] = "done" =>
    \A rr \in DataRowsOf(c) :
      LET row == At(InputGrid(c), rr)
          named == NameMatches(c, row)
      IN /\ IndexHits(c, row) =>
              hit[c][rr] = Max(WithIndex(c, Number(At(row, featureIndexCol[c])).n))
         /\ ~IndexHits(c, row) /\ named # {} =>
              hit[c][rr] = Min(named) /\ ~Nameless(c, hit[c][rr])
         /\ ~IndexHits(c, row) /\ featureCol[c] >= 0
              /\ norm(At(row, featureCol[c])) = <<>> =>
              hit[c][rr] = SortedAt(Records(c), rr - (headerRowIndex[c] + 1))

\* C23 witness: with two records of one featureIndex, one of them nameless, a
\* row with a blank name and no usable index got the named record by its
\* position, and a row with that featureIndex got the later record.
C23_Witness ==
  \E c \in Calls : pc[c] = "done" /\ featureCol[c] >= 0 /\
    \E r1, r2 \in DataRowsOf(c) :
      /\ ~IndexHits(c, At(InputGrid(c), r1))
      /\ norm(At(At(InputGrid(c), r1), featureCol[c])) = <<>>
      /\ \E a \in 1..Len(Records(c)) : Nameless(c, a)
      /\ hit[c][r1] # 0 /\ ~Nameless(c, hit[c][r1])
      /\ IndexHits(c, At(InputGrid(c), r2))
      /\ hit[c][r2] = 2
      /\ Records(c)[1].featureIndex = Records(c)[2].featureIndex

\* The row was resolved by neither key: no record by its index cell, none by
\* its name cell.
Unkeyed(c, rr) ==
  /\ ~IndexHits(c, At(InputGrid(c), rr))
  /\ NameMatches(c, At(InputGrid(c), rr)) = {}

\* C24: on success every data row carries the values of the one record it was
\* given, and the positional step excludes nothing: a row resolved by neither
\* key gets the record at its position in the full sorted list also when that
\* record was already given to another row, so two rows can carry one record.
C24_RecordReuse ==
  \A c \in Calls : pc[c] = "done" =>
    \A r1, r2 \in DataRowsOf(c) :
      /\ r1 # r2
      /\ Unkeyed(c, r2)
      /\ hit[c][r1] # 0
      /\ SortedAt(Records(c), r2 - (headerRowIndex[c] + 1)) = hit[c][r1]
      => /\ hit[c][r2] = hit[c][r1]
         /\ AppendedCells(c, r2) = hitCells(Records(c)[hit[c][r1]])
         /\ AppendedCells(c, r1) = hitCells(Records(c)[hit[c][r1]])

\* C24 witness: a row resolved by its index or name and a later row resolved
\* by position carry the same record.
C24_Witness ==
  \E c \in Calls : pc[c] = "done" /\
    \E r1, r2 \in DataRowsOf(c) :
      /\ r1 < r2
      /\ ~Unkeyed(c, r1)
      /\ Unkeyed(c, r2)
      /\ hit[c][r1] # 0
      /\ hit[c][r2] = hit[c][r1]
      /\ AppendedCells(c, r2) = AppendedCells(c, r1)

\* The department names under which the application's own rows keep ranges.
OtherVocabulary ==
  {"React", "Next", "Vue", "Flutter", "React.Native", "html/css", "AI-ML",
   "Nest", "Node", "DotNet", "Blockchain"}

\* The three appended cells of the department at position i (1..5).
DepartmentCells(c, rr, i) == SubSeq(AppendedCells(c, rr), 3 * i - 2, 3 * i)

\* C25: on success, for a row given a record, the three cells of a department
\* without an entry in the record's ranges are blank, the cells of the
\* departments with an entry hold its min, most likely and max, the four
\* scalar cells hold the record's scalars, and a record whose ranges are keyed
\* only by the other vocabulary has all fifteen range cells blank.
C25_MissingRange ==
  \A c \in Calls : pc[c] = "done" =>
    \A rr \in DataRowsOf(c) : hit[c][rr] # 0 =>
      LET rec == Records(c)[hit[c][rr]]
      IN /\ \A i \in 1..Len(ExpectedDepartments) :
              DepartmentCells(c, rr, i) =
                IF ExpectedDepartments[i] \in DOMAIN rec.ranges
                THEN <<ExpectedValue(rec, 3 * i - 2), ExpectedValue(rec, 3 * i - 1),
                       ExpectedValue(rec, 3 * i)>>
                ELSE blanks(3)
         /\ \A k \in 16..19 : AppendedCells(c, rr)[k] = ExpectedValue(rec, k)
         /\ DOMAIN rec.ranges \subseteq OtherVocabulary =>
              SubSeq(AppendedCells(c, rr), 1, 15) = blanks(15)

\* C25 witness: a finished call wrote a row from a record whose ranges are
\* keyed by the other vocabulary only, and its confidence cell is written.
C25_Witness ==
  \E c \in Calls : pc[c] = "done" /\ error[c] = "" /\
    \E rr \in DataRowsOf(c) :
      /\ hit[c][rr] # 0
      /\ DOMAIN Records(c)[hit[c][rr]].ranges # {}
      /\ DOMAIN Records(c)[hit[c][rr]].ranges \subseteq OtherVocabulary
      /\ AppendedCells(c, rr)[16] = Str(<<"M","e","d","i","u","m">>)

\* ---- the pages

\* Request q ends in this step, and its caller goes on.
Settles(q) == net.req[q].pc # "idle" /\ net'.req[q].pc = "idle"

\* The request is one of StatusPage.
ForStatus(q) == net.req[q].caller.kind \in {"startPolling", "poll"}

\* Nothing of the polling is left: no poll timer is set, no status request
\* is under way.
Quiet ==
  /\ status.pending = {}
  /\ \A q \in Reqs : net.req[q].pc # "idle" => ~ForStatus(q)

\* In this step a status response with status COMPLETED or FAILED is handed
\* to StatusPage.
TerminalReceived(q) ==
  /\ ForStatus(q) /\ Settles(q)
  /\ net.req[q].pc = "json" /\ ~net.req[q].res.malformed
  /\ net.req[q].res.body.status \in {"COMPLETED", "FAILED"}

\* C27: a step that hands StatusPage a COMPLETED or FAILED status leaves
\* polling off (while the page is mounted), no poll timer set and no status
\* request under way; from then on none is set or made by any step but a
\* startPolling that goes on to fetch; and at most one poll timer is pending.
C27_PollingTermination ==
  [][ /\ \A q \in Reqs : TerminalReceived(q) =>
            Quiet' /\ (status.mounted => ~status'.polling)
      /\ Quiet /\ ~(status'.loading /\ ~status.loading) => Quiet'
      /\ Cardinality(status'.pending) <= 1 ]_vars

\* C27 witness: a poll made after a backoff to 20000 ms was answered
\* COMPLETED or FAILED and the mounted page has polling off, no timer and no
\* request.
C27_Witness ==
  /\ status.mounted /\ ~status.polling /\ ~status.loading
  /\ status.status \in {"COMPLETED", "FAILED"}
  /\ status.pollTimer = 0 /\ status.nextPollMs = 20000 /\ status.backoffMs = 20000
  /\ net.last.cause = "json"
  /\ Quiet

\* The only pending poll timer has a delay within lo..hi.
NextPollWithin(lo, hi) ==
  \E t \in status.pending :
    status.pending = {t} /\ t.delay >= lo /\ t.delay <= hi

\* C28: a poll that ends with HTTP 429 leaves polling on and one poll timer
\* of 10000 to 30000 ms; a poll answered with a status that is not terminal
\* leaves one poll timer of 10000 ms; a poll that ends with any other error
\* leaves polling off, no poll timer and the error's message shown (while
\* the page is mounted); and no poll timer has a delay under 1000 ms.
C28_Backoff ==
  [][ /\ \A q \in Reqs : net.req[q].caller.kind = "poll" /\ Settles(q) =>
            LET res == net.req[q].res
                at == net.req[q].pc
            IN /\ at = "body" /\ res.status = 429 =>
                    /\ NextPollWithin(10000, 30000)'
                    /\ status.mounted =>
                         /\ status'.polling
                         /\ \A t \in status'.pending : status'.nextPollMs = t.delay
               /\ at = "json" /\ ~res.malformed
                    /\ res.body.status \notin {"COMPLETED", "FAILED"} =>
                    NextPollWithin(10000, 10000)'
               /\ at = "fetch" \/ (at = "body" /\ res.status # 429)
                    \/ (at = "json" /\ res.malformed) =>
                    /\ status'.pending = {}
                    /\ status.mounted =>
                         /\ ~status'.polling
                         /\ status'.error # ""
                         /\ at = "fetch" /\ net'.last.cause = "rejected" =>
                              status'.error = CannotReach
                         /\ at = "fetch" /\ net'.last.cause = "aborted" =>
                              status'.error = TimedOut
      /\ \A t \in status'.pending : t.delay >= 1000 ]_vars

\* C28 witness: after a poll that ended with HTTP 429 the next poll is set
\* at the cap of 30000 ms and polling is on.
C28_Witness ==
  /\ status.mounted /\ status.polling
  /\ net.last.name = "ApiError" /\ net.last.status = 429
  /\ NextPollWithin(30000, 30000)
  /\ status.backoffMs = 30000

\* C29: the offline flag turns true only in a step in which fetch() rejected
\* for a request at its await; a step in which a response arrives leaves it
\* false, and so does the abort of a request at its await of fetch(); a
\* response that is not ok ends in an ApiError with the response's status;
\* and no request that has returned or thrown has its timeout timer set.
C29_OfflineFlag ==
  [][ /\ net'.offline /\ ~net.offline =>
            /\ net'.last.cause = "rejected"
            /\ \E q \in Reqs : net.req[q].pc = "fetch" /\ Settles(q)
      /\ \A q \in Reqs :
            /\ net.req[q].pc = "fetch" /\ net'.req[q].pc \in {"json", "body"} =>
                  ~net'.offline /\ net'.req[q].res.status > 0
            /\ net.req[q].pc = "fetch" /\ Settles(q) /\ net'.last.cause = "aborted" =>
                  ~net'.offline
            /\ net.req[q].pc = "body" /\ Settles(q) =>
                  /\ net'.last.name = "ApiError"
                  /\ net'.last.status = net.req[q].res.status
                  /\ net.req[q].res.status \notin 200..299
            /\ net'.req[q].pc \in {"idle", "json"} => ~net'.req[q].timer ]_vars

\* C29 witness: the flag is true after a fetch() that rejected, while another
\* request has its response and awaits the body.
C29_Witness ==
  /\ net.offline
  /\ net.last.cause = "rejected"
  /\ \E q \in Reqs : net.req[q].pc = "body" /\ net.req[q].timer

\* The position (1-based) of the first row of a list with the featureIndex,
\* 0 if none.
FirstWith(list, featureIndex) ==
  IF \E i \in 1..Len(list) : list[i].featureIndex = featureIndex
  THEN Min({i \in 1..Len(list) : list[i].featureIndex = featureIndex})
  ELSE 0

\* next is list with the row at position k replaced, when k is a position.
OnlyRowReplaced(list, next, k) ==
  /\ Len(next) = Len(list)
  /\ \A i \in 1..Len(list) : i # k => next[i] = list[i]

\* C30: regenerating[featureIndex] is true while a regenerate of that
\* featureIndex is under way and false in the step that ends it; when it
\* ends with an estimate, the first row with that featureIndex is replaced by
\* one and the same row in original and draft and no other row of either
\* changes; when it ends otherwise neither list changes; a local edit leaves
\* original as it was; and a step that changes the draft without an edit or
\* the end of a request makes it equal to original.
C30_RegenerateAndReset ==
  [][ /\ \A q \in Reqs :
            net'.req[q].pc # "idle" /\ net'.req[q].caller.kind = "regenerate" =>
              isRegenerating(page', net'.req[q].caller.featureIndex)
      /\ \A q \in Reqs : net.req[q].caller.kind = "regenerate" /\ Settles(q) =>
            LET fi == net.req[q].caller.featureIndex
                res == net.req[q].res
                k == FirstWith(page.original[1], fi)
            IN /\ ~isRegenerating(page', fi)
               /\ IF net.req[q].pc = "json" /\ ~res.malformed
                       /\ res.body.estimate # <<>>
                  THEN /\ OnlyRowReplaced(page.original[1], page'.original[1], k)
                       /\ OnlyRowReplaced(page.draft[1], page'.draft[1], k)
                       /\ k = FirstWith(page.draft[1], fi)
                       /\ k # 0 =>
                            /\ page'.original[1][k] = page'.draft[1][k]
                            /\ page'.original[1][k].featureIndex = fi
                            /\ truthy(res.body.estimate[1].featureName) =>
                                 page'.original[1][k].featureName
                                   = res.body.estimate[1].featureName[1]
                  ELSE page'.original = page.original /\ page'.draft = page.draft
      /\ page'.edits # page.edits => page'.original = page.original
      /\ /\ page'.draft # page.draft
         /\ page'.edits = page.edits
         /\ \A q \in Reqs : ~Settles(q)
         => page'.draft = page.original /\ page'.original = page.original ]_vars

\* C30 witness: a regenerate ended with an estimate, its row is the same new
\* row in both lists, and another row carries a local edit in the draft only.
C30_Witness ==
  /\ page.original # <<>> /\ page.draft # <<>>
  /\ \E i, j \in 1..Len(page.draft[1]) :
       /\ page.draft[1][i] = page.original[1][i]
       /\ page.draft[1][i].featureName = <<"S","i","g","n"," ","i","n">>
       /\ ~isRegenerating(page, page.draft[1][i].featureIndex)
       /\ page.draft[1][j] # page.original[1][j]

\* The conditions under which the export may go on.
GuardHolds ==
  /\ page.draft # <<>> /\ Len(page.draft[1]) > 0
  /\ session.uploadedExcelFile # <<>>
  /\ trim(session.activeSessionId) # <<>>
  /\ trim(session.uploadedExcelSessionId) # <<>>
  /\ trim(session.activeSessionId) = trim(session.uploadedExcelSessionId)

\* exportAnnotatedOriginalExcel runs in this step.
HandlerRuns == page'.exported = page.exported + 1

\* The engine is invoked as call c in this step.
Invoked(c) == pc[c] = "idle" /\ pc'[c] # "idle"

\* C26: the engine is invoked only by a run of the handler in a state where
\* the draft is not empty, a file is held and the trimmed session ids are
\* not empty and equal, and then with that file and the draft; a run in any
\* other state sets an error message and invokes nothing; and when the
\* engine call it awaits has failed, the handler shows the engine's message.
C26_ExportGuard ==
  [][ /\ \A c \in Calls : Invoked(c) =>
            /\ HandlerRuns /\ GuardHolds
            /\ params'[c].originalFile = session.uploadedExcelFile
            /\ params'[c].rows = page.draft[1]
      /\ HandlerRuns /\ ~GuardHolds =>
            page'.error # "" /\ pc' = pc /\ page'.exporting = page.exporting
      /\ HandlerRuns /\ GuardHolds => \E c \in Calls : Invoked(c)
      /\ \A c \in Calls :
            c \in page.exporting /\ c \notin page'.exporting /\ pc[c] = "failed" =>
              page'.error = error[c] /\ pc' = pc ]_vars

\* C26 witness: the engine, invoked by the handler, failed for want of a key
\* column, and its message is the page's error message.
C26_Witness ==
  /\ page.exported >= 1 /\ page.exporting = {}
  /\ pc[1] = "failed" /\ error[1] = MissingKeyColumn
  /\ page.error = MissingKeyColumn
====
